---- MODULE Spec2Model ----
(***************************************************************************)
(* KnowBot backend (bhargavhegde/KnowBot3.0): the REST controllers of      *)
(* backend/api/views.py, the Celery jobs of backend/api/tasks.py and the   *)
(* RAG engine of backend/rag/service.py, as state machines over the        *)
(* relational tables, the upload directory and the shared vector           *)
(* collection.                                                             *)
(*                                                                         *)
(* The specifications share the variables:                                 *)
(*   SpecPersona  the persona (SystemPrompt) resource,                     *)
(*   SpecUpload   the upload action over valid and invalid files,          *)
(*   SpecJob      upload and the index-one-document job with its retries,  *)
(*   SpecDocs     upload, delete and knowledge-base reset,                 *)
(*   SpecChat     upload, the index job and the chat endpoint,             *)
(*   SpecQuery    RAGEngine.query applied to a stored collection,          *)
(*   SpecTitle    chat exchanges one after the other,                      *)
(*   SpecTurns    chat requests that overlap in time,                      *)
(*   SpecOwner    the per-record operations on owned and foreign records,  *)
(*   SpecRepair   the repair command over documents that lost their file,  *)
(*   SpecHybrid   the hybrid retriever behind get_retriever(k),            *)
(*   SpecFusion   Reciprocal Rank Fusion of two ranked lists,              *)
(*   SpecCleanup  the orphaned-file cleanup job,                           *)
(*   SpecReindex  the reindex-all job,                                     *)
(*   SpecWrite    the generic create and update routes of the documents,   *)
(*   SpecClient   get_chroma_client called by threads that interleave      *)
(*                (SpecClientSerial: one call at a time),                  *)
(*   SpecFlight   delete and reset while an index job is in flight,        *)
(*   SpecRace     the cleanup job between the two steps of an upload       *)
(*                (SpecRaceQuiet: only while no upload is in progress),    *)
(*   SpecKeyword  the keyword index of the web process and its retrieval,  *)
(*   SpecRetry    the index job with attempts that fail after storing,     *)
(*   SpecSettle   upload and the index job; SpecSettleFair adds a worker   *)
(*                that keeps running what is queued.                       *)
(***************************************************************************)
EXTENDS Integers, Sequences, FiniteSets, Bags, TLC

VARIABLES prompts,   \* table api_systemprompt: id -> row
          docs,      \* table api_document: id -> row
          docSeq,    \* the autoincrement counter of api_document
          files,     \* settings.DATA_DIR: stored name -> content of the file
          vectors,   \* the knowbot_docs collection: a bag of chunk metadata
          jobs,      \* index_document_task instances, by document id
          sessions,  \* table api_chatsession: id -> row
          sessSeq,   \* the autoincrement counter of api_chatsession
          messages,  \* table api_chatmessage, in creation order
          requests,  \* chat requests served in two phases, by arrival
          ocr,       \* OCR_ENABLED of the deployment
          chroma_client, \* _CHROMA_CLIENT of the web process: 0 is None
          clients,   \* the number of Chroma clients constructed so far
          callers,   \* the calls of get_chroma_client, by thread
          uploads,   \* upload requests served in two steps, by arrival
          bm25,      \* _BM25_INDEXES of the web process: user key -> chunks
          resp       \* the outcome of the last request or job step

vars == <<prompts, docs, docSeq, files, vectors, jobs, sessions, sessSeq,
          messages, requests, ocr, chroma_client, clients, callers,
          uploads, bm25, resp>>

(***************************************************************************)
(* Bounds of the model.                                                    *)
(***************************************************************************)
MaxPrompts == 3    \* personas created in one behaviour
MaxUploads == 1    \* uploads accepted in one behaviour of SpecUpload
MaxJobDocs == 1    \* uploads accepted in one behaviour of SpecJob
MaxDocs == 2       \* uploads accepted in one behaviour of SpecDocs
MaxChunks == 1     \* chunks the splitter cuts the longest uploaded text into

\* Two account holders, A and B; auth_user ids start at 1.
Users == {1, 2}
PromptIds == 1..MaxPrompts
Contents == {"formal", "casual"}

NULL == "NULL"

\* The row a function-valued table holds for key k, after writing row r.
Put(table, k, r) == [i \in DOMAIN table \cup {k} |-> IF i = k THEN r ELSE table[i]]

\* The table without key k.
Drop(table, ks) == [i \in DOMAIN table \ ks |-> table[i]]

(***************************************************************************)
(* Persona (SystemPrompt) resource.                                        *)
(***************************************************************************)

\* SystemPrompt.save(): a row saved with is_active set deactivates every
\* other row of the same owner in the same write.
SystemPromptSave(table, id, row) ==
    LET cleared == [i \in DOMAIN table |->
                      IF row.is_active /\ i # id /\ table[i].user = row.user
                      THEN [table[i] EXCEPT !.is_active = FALSE]
                      ELSE table[i]]
    IN  Put(cleared, id, row)

\* SystemPromptViewSet.get_queryset: the rows the requester owns.
PromptQueryset(u) == {i \in DOMAIN prompts : prompts[i].user = u}

ActiveOf(table, u) == {i \in DOMAIN table : table[i].user = u /\ table[i].is_active}

PersonaFrame == UNCHANGED <<docs, docSeq, files, vectors, jobs, sessions,
                            sessSeq, messages, requests, ocr,
                chroma_client, clients, callers, uploads, bm25>>

\* POST /api/prompts/ : perform_create saves the validated row for the requester.
PromptCreate(u, content, active) ==
    /\ Cardinality(DOMAIN prompts) < MaxPrompts
    /\ LET id == Cardinality(DOMAIN prompts) + 1
           row == [user |-> u, content |-> content, is_active |-> active]
       IN  /\ prompts' = SystemPromptSave(prompts, id, row)
           /\ resp' = [op |-> "prompt_create", user |-> u, code |-> 201, id |-> id,
                       before |-> ActiveOf(prompts, u)]
    /\ PersonaFrame

\* PUT /api/prompts/{id}/ : content and is_active are client-writable.
PromptUpdate(u, id, content, active) ==
    /\ IF id \in PromptQueryset(u)
       THEN /\ prompts' = SystemPromptSave(prompts, id,
                              [prompts[id] EXCEPT !.content = content,
                                                  !.is_active = active])
            /\ resp' = [op |-> "prompt_update", user |-> u, code |-> 200, id |-> id,
                        before |-> ActiveOf(prompts, u)]
       ELSE /\ UNCHANGED prompts
            /\ resp' = [op |-> "prompt_update", user |-> u, code |-> 404, id |-> id,
                        before |-> ActiveOf(prompts, u)]
    /\ PersonaFrame

\* The same request when the view writes the flag without Model.save().
activate_unsaved(u, id) ==
    /\ IF id \in PromptQueryset(u)
       THEN /\ prompts' = [prompts EXCEPT ![id].is_active = TRUE]
            /\ resp' = [op |-> "activate", user |-> u, code |-> 200, id |-> id,
                        before |-> ActiveOf(prompts, u)]
       ELSE /\ UNCHANGED prompts
            /\ resp' = [op |-> "activate", user |-> u, code |-> 404, id |-> id,
                        before |-> ActiveOf(prompts, u)]
    /\ PersonaFrame

\* POST /api/prompts/{id}/activate/
activate(u, id) ==
    /\ IF id \in PromptQueryset(u)
       THEN /\ prompts' = SystemPromptSave(prompts, id,
                              [prompts[id] EXCEPT !.is_active = TRUE])
            /\ resp' = [op |-> "activate", user |-> u, code |-> 200, id |-> id,
                        before |-> ActiveOf(prompts, u)]
       ELSE /\ UNCHANGED prompts
            /\ resp' = [op |-> "activate", user |-> u, code |-> 404, id |-> id,
                        before |-> ActiveOf(prompts, u)]
    /\ PersonaFrame

\* POST /api/prompts/reset/
reset_to_default(u) ==
    /\ prompts' = [i \in DOMAIN prompts |->
                     IF prompts[i].is_active /\ prompts[i].user = u
                     THEN [prompts[i] EXCEPT !.is_active = FALSE]
                     ELSE prompts[i]]
    /\ resp' = [op |-> "prompt_reset", user |-> u, code |-> 200, id |-> 0,
                before |-> ActiveOf(prompts, u)]
    /\ PersonaFrame


(***************************************************************************)
(* Documents: names, paths and upload validation.                          *)
(***************************************************************************)

\* A file name is the sequence of its dot-separated parts: name.split('.').
\* str.lower() on the parts that occur.
Lower(s) == CASE s = "TXT" -> "txt"
              [] s = "PDF" -> "pdf"
              [] s = "PNG" -> "png"
              [] OTHER -> s

\* '.' + name.split('.')[-1].lower() if '.' in name else ''
Ext(name) == IF Len(name) > 1 THEN <<".", Lower(name[Len(name)])>> ELSE <<>>

allowed_extensions ==
    {<<".", e>> : e \in {"pdf", "txt", "md", "png", "jpg", "jpeg", "tiff", "tif", "bmp"}}

max_size == 52428800    \* 50 * 1024 * 1024

\* validate_file without the size check.
validate_file_anysize(f) ==
    IF Ext(f.name) \notin allowed_extensions THEN FALSE
    ELSE TRUE

\* DocumentUploadSerializer.validate_file: TRUE when the file is accepted.
validate_file(f) ==
    IF Ext(f.name) \notin allowed_extensions THEN FALSE
    ELSE IF f.size > max_size THEN FALSE
    ELSE TRUE

\* uuid.uuid4() of the n-th accepted upload, as text.
Uuid(n) == <<"u1", "u2", "u3", "u4", "u5", "u6">>[n]

\* unique_filename = f"{uuid.uuid4()}{ext}"
UniqueFilename(n, name) == <<Uuid(n), Lower(name[Len(name)])>>

\* str(data_dir / unique_filename), and Path(p).name
DataPath(fname) == <<"data">> \o fname
PathName(p) == Tail(p)

\* str(user_id) as stored in chunk metadata; the empty tuple is a missing key.
Str(u) == <<u>>
NoKey == <<>>

IndexStatus == {"pending", "processing", "indexed", "failed"}

\* DocumentViewSet.get_queryset
DocQueryset(u) == {d \in DOMAIN docs : docs[d].user = u}

\* The files a client may send: name, size in bytes, and the number of chunks
\* the text splitter cuts its content into (0 for a file without text).
UploadNames == {<<"notes", "TXT">>, <<"scan", "png">>, <<"run", "exe">>, <<"README">>}
UploadSizes == {max_size, max_size + 1}
UploadFiles == [name : UploadNames, size : UploadSizes, content : 0..MaxChunks]

image_extensions == {"png", "jpg", "jpeg", "tiff", "tif", "bmp", "gif"}

\* user_id=None of the Python signatures; real user ids start at 1.
NoUser == 0

\* DocumentProcessor.load_single_document over the upload directory disk: the
\* chunks of the file at path p, or the exception it raises.  An empty
\* original_filename is the default None.
load_single_document(disk, p, user_id, original_filename) ==
    LET ext == p[Len(p)]
        source_name == IF original_filename # <<>> THEN original_filename ELSE PathName(p)
    IN  IF PathName(p) \notin DOMAIN disk
        THEN [raised |-> "File not found", chunks |-> {}]
        ELSE IF ext \in image_extensions /\ ~ocr
        THEN [raised |-> "OCR is required", chunks |-> {}]
        ELSE IF ext \notin image_extensions \cup {"pdf", "txt", "md"}
        THEN [raised |-> "Unsupported file type", chunks |-> {}]
        ELSE [raised |-> NULL,
              chunks |-> {[source |-> source_name, file_path |-> p,
                           user_id |-> IF user_id # NoUser THEN Str(user_id) ELSE NoKey,
                           chunk |-> k] : k \in 1..disk[PathName(p)]}]

\* VectorStoreManager.create_vector_store, up to add_documents: the collection
\* after the call, or the exception.  manager_user is self.user_id.
create_vector_store(chunks, manager_user, backend_up) ==
    IF chunks = {}
    THEN [raised |-> "No chunks provided", vectors |-> vectors]
    ELSE IF ~backend_up
    THEN [raised |-> "embedding backend unreachable", vectors |-> vectors]
    ELSE LET stamped == {IF manager_user # NoUser /\ c.user_id = NoKey
                         THEN [c EXCEPT !.user_id = Str(manager_user)]
                         ELSE c : c \in chunks}
         IN  [raised |-> NULL, vectors |-> vectors (+) SetToBag(stamped)]

\* collection.delete(where=...): the bag without the matching records.
DeleteWhere(bag, matching) ==
    [r \in DOMAIN bag \ matching |-> bag[r]]

\* collection.get(where={"file_path": p}): the records stored for a file path.
VectorsAt(bag, p) == {x \in DOMAIN bag : x.file_path = p}

\* where={"source": p}: the records stored under the legacy source key.
VectorsFrom(bag, p) == {x \in DOMAIN bag : x.source = p}

\* collection.get(where={"user_id": str(u)}): the records tagged with a user.
VectorsOf(bag, u) == {x \in DOMAIN bag : x.user_id = Str(u)}

\* delete_from_vector_store with only the legacy "source" key.
delete_from_vector_store_legacy(p, collection_up) ==
    IF collection_up
    THEN DeleteWhere(vectors, VectorsFrom(vectors, p))
    ELSE vectors

\* VectorStoreManager.delete_from_vector_store; the except clause swallows a
\* failing collection call and leaves the collection as it was.
delete_from_vector_store(p, collection_up) ==
    IF collection_up
    THEN LET first == DeleteWhere(vectors, VectorsAt(vectors, p))
         IN  DeleteWhere(first, VectorsFrom(first, p))
    ELSE vectors

\* reset_vector_store taking the delete_collection branch.
reset_vector_store_all(u, collection_up) ==
    IF collection_up THEN EmptyBag ELSE vectors

\* VectorStoreManager.reset_vector_store for a manager with a user id.
reset_vector_store(u, collection_up) ==
    IF collection_up
    THEN DeleteWhere(vectors, VectorsOf(vectors, u))
    ELSE vectors


(***************************************************************************)
(* Documents: upload, the index-one-document job, delete and reset.        *)
(***************************************************************************)

max_retries == 3

DocsFrame ==
    UNCHANGED <<prompts, sessions, sessSeq, messages, requests, ocr,
                chroma_client, clients, callers, uploads, bm25>>

\* What an upload request leaves alone besides the document tables.
UploadFrame ==
    UNCHANGED <<prompts, sessions, sessSeq, messages, requests, ocr,
                chroma_client, clients, callers, uploads>>

\* The row of Document.objects.create(...) in upload.
NewDocument(u, n, f) ==
    [user |-> u,
     filename |-> UniqueFilename(n, f.name),
     original_filename |-> f.name,
     file_path |-> DataPath(UniqueFilename(n, f.name)),
     file_size |-> f.size,
     file_type |-> Lower(f.name[Len(f.name)]),
     index_status |-> "pending",
     chunk_count |-> 0,
     error_message |-> NULL,
     indexed_at |-> NULL]

\* No Document instance is held by a job that is not running.
NoDocument == [user |-> 0]

\* The chunks of one file in the order the splitter produced them.
RECURSIVE InOrder(_)
InOrder(chunks) ==
    IF chunks = {} THEN <<>>
    ELSE LET c == CHOOSE x \in chunks : \A y \in chunks : x.chunk <= y.chunk
         IN  <<c>> \o InOrder(chunks \ {c})

\* update_bm25_index: create_vector_store appends the chunks it stored to
\* the keyword index of the manager's user (key 0 without a user).
update_bm25_index(index, chunks, user_id) ==
    [index EXCEPT ![user_id] = @ \o InOrder(chunks)]

\* upload, lines 117-132, when the fallback loses the error text.
SyncFallback_silent(created, disk, u, backend_up) ==
    LET loaded == load_single_document(disk, created.file_path, u, <<>>)
        stored == create_vector_store(loaded.chunks, u, backend_up)
        err == IF loaded.raised # NULL THEN loaded.raised ELSE stored.raised
    IN  IF err = NULL
        THEN [vectors |-> stored.vectors,
              keywords |-> update_bm25_index(bm25, loaded.chunks, u),
              saved |-> [created EXCEPT !.index_status = "indexed",
                                        !.chunk_count = Cardinality(loaded.chunks),
                                        !.indexed_at = "now"]]
        ELSE [vectors |-> vectors,
              keywords |-> bm25,
              saved |-> [created EXCEPT !.index_status = "failed"]]

\* upload, lines 117-132: the synchronous fallback indexes in the request and
\* saves the outcome on the record.
SyncFallback(created, disk, u, backend_up) ==
    LET loaded == load_single_document(disk, created.file_path, u, <<>>)
        stored == create_vector_store(loaded.chunks, u, backend_up)
        err == IF loaded.raised # NULL THEN loaded.raised ELSE stored.raised
    IN  IF err = NULL
        THEN [vectors |-> stored.vectors,
              keywords |-> update_bm25_index(bm25, loaded.chunks, u),
              saved |-> [created EXCEPT !.index_status = "indexed",
                                        !.chunk_count = Cardinality(loaded.chunks),
                                        !.indexed_at = "now"]]
        ELSE [vectors |-> vectors,
              keywords |-> bm25,
              saved |-> [created EXCEPT !.index_status = "failed",
                                        !.error_message = err]]

\* POST /api/documents/upload/ .  queue_up: index_document_task.delay reaches
\* the broker; backend_up: the embedding backend answers during the
\* synchronous fallback.
upload(u, f, queue_up, backend_up) ==
    /\ IF ~validate_file(f)
       THEN /\ resp' = [op |-> "upload", code |-> 400, id |-> 0,
                        file |-> f, queued |-> FALSE, backend_up |-> TRUE,
                        body |-> NoDocument]
            /\ UNCHANGED <<docs, docSeq, files, vectors, jobs, bm25>>
       ELSE LET id == docSeq + 1
                created == NewDocument(u, id, f)
                disk == Put(files, created.filename, f.content)
            IN  /\ docSeq' = id
                /\ files' = disk
                /\ IF queue_up
                   THEN /\ docs' = Put(docs, id, created)
                        /\ jobs' = Put(jobs, id, [state |-> "queued", retries |-> 0,
                                                  attempts |-> 0,
                                                  document |-> NoDocument])
                        /\ UNCHANGED <<vectors, bm25>>
                        /\ resp' = [op |-> "upload", code |-> 201, id |-> id,
                                    file |-> f, queued |-> TRUE,
                                    backend_up |-> TRUE, body |-> created]
                   ELSE LET sync == SyncFallback(created, disk, u, backend_up)
                        IN  /\ docs' = Put(docs, id, sync.saved)
                            /\ vectors' = sync.vectors
                            /\ bm25' = sync.keywords
                            /\ UNCHANGED jobs
                            /\ resp' = [op |-> "upload", code |-> 201, id |-> id,
                                        file |-> f, queued |-> FALSE,
                                        backend_up |-> backend_up,
                                        body |-> sync.saved]
    /\ UploadFrame

\* index_document_task, lines 70-74, when the except clause forgets the status.
TaskFailed_unsaved(document, err) ==
    [document EXCEPT !.error_message = err]

\* index_document_task, lines 70-74: the except clause marks the instance.
TaskFailed(document, err) ==
    [document EXCEPT !.index_status = "failed", !.error_message = err]

\* index_document_task, lines 31-41: fetch the Document and mark it processing.
IndexBegin(d) ==
    /\ d \in DOMAIN jobs
    /\ jobs[d].state = "queued"
    /\ IF d \notin DOMAIN docs
       THEN /\ jobs' = [jobs EXCEPT ![d].state = "done",
                                    ![d].attempts = jobs[d].attempts + 1]
            /\ UNCHANGED docs
            /\ resp' = [op |-> "index_begin", id |-> d, outcome |-> "not found"]
       ELSE LET document == [docs[d] EXCEPT !.index_status = "processing"]
            IN  /\ docs' = Put(docs, d, document)
                /\ jobs' = [jobs EXCEPT ![d].state = "running",
                                        ![d].attempts = jobs[d].attempts + 1,
                                        ![d].document = document]
                /\ resp' = [op |-> "index_begin", id |-> d, outcome |-> "processing"]
    /\ UNCHANGED <<docSeq, files, vectors>>
    /\ DocsFrame

\* index_document_task, lines 43-77: load, store, and save the outcome on the
\* instance fetched at the start; Model.save() inserts the row when it is gone.
IndexFinish(d, backend_up) ==
    /\ d \in DOMAIN jobs
    /\ jobs[d].state = "running"
    /\ LET document == jobs[d].document
           loaded == load_single_document(files, document.file_path, document.user,
                                          document.original_filename)
           stored == create_vector_store(loaded.chunks, document.user, backend_up)
           err == IF loaded.raised # NULL THEN loaded.raised ELSE stored.raised
       IN  IF err = NULL
           THEN /\ vectors' = stored.vectors
                /\ docs' = Put(docs, d, [document EXCEPT
                                !.index_status = "indexed",
                                !.chunk_count = Cardinality(loaded.chunks),
                                !.indexed_at = "now",
                                !.error_message = NULL])
                /\ jobs' = [jobs EXCEPT ![d].state = "done",
                                        ![d].document = NoDocument]
                /\ resp' = [op |-> "index_finish", id |-> d, outcome |-> "indexed",
                            error |-> NULL]
           ELSE /\ UNCHANGED vectors
                /\ docs' = Put(docs, d, TaskFailed(document, err))
                /\ jobs' = IF jobs[d].retries < max_retries
                           THEN [jobs EXCEPT ![d].state = "queued",
                                             ![d].retries = jobs[d].retries + 1,
                                             ![d].document = NoDocument]
                           ELSE [jobs EXCEPT ![d].state = "exhausted",
                                             ![d].document = NoDocument]
                /\ resp' = [op |-> "index_finish", id |-> d, outcome |-> "failed",
                            error |-> err]
    /\ UNCHANGED <<docSeq, files>>
    /\ DocsFrame

DestroyFaults == {"none", "client", "collection", "unlink"}

\* DELETE /api/documents/{id}/ .  fault: what raises inside the try block:
\* the Chroma client constructor, the collection call, or Path.unlink.
destroy(u, d, fault) ==
    /\ IF d \notin DocQueryset(u)
       THEN /\ UNCHANGED <<docs, files, vectors>>
            /\ resp' = [op |-> "destroy", code |-> 404, id |-> 0,
                        fault |-> "none", path |-> <<>>, had |-> FALSE]
       ELSE LET path == docs[d].file_path
            IN  /\ vectors' = IF fault = "client" THEN vectors
                              ELSE delete_from_vector_store(path, fault # "collection")
                /\ files' = IF fault \in {"client", "unlink"} THEN files
                            ELSE Drop(files, {PathName(path)})
                /\ docs' = Drop(docs, {d})
                /\ resp' = [op |-> "destroy", code |-> 204, id |-> d,
                            fault |-> fault, path |-> path,
                            had |-> VectorsAt(vectors, path) # {}]
    /\ UNCHANGED <<docSeq, jobs>>
    /\ DocsFrame

ResetFaults == {"none", "client", "collection"}

\* POST /api/documents/reset/ .  fault as above; bad is the document whose
\* file cannot be unlinked (0: every unlink succeeds).
reset_knowledge(u, fault, bad) ==
    /\ IF fault = "client"
       THEN /\ UNCHANGED <<docs, files, vectors>>
            /\ resp' = [op |-> "reset", user |-> u, code |-> 500, fault |-> fault,
                        bad |-> 0, paths |-> {}]
       ELSE LET mine == DocQueryset(u)
                removed == {PathName(docs[d].file_path) : d \in mine \ {bad}}
            IN  /\ vectors' = reset_vector_store(u, fault # "collection")
                /\ files' = Drop(files, removed)
                /\ docs' = Drop(docs, mine)
                /\ resp' = [op |-> "reset", user |-> u, code |-> 200, fault |-> fault,
                            bad |-> IF bad \in mine THEN bad ELSE 0,
                            paths |-> {docs[d].file_path : d \in mine}]
    /\ UNCHANGED <<docSeq, jobs>>
    /\ DocsFrame

(***************************************************************************)
(* The RAG engine (backend/rag/service.py) and the chat endpoint.          *)
(***************************************************************************)
MaxChatDocs == 2
MaxMessages == 2
MaxQueryDocs == 2
MaxTitleMessages == 6

\* ChatRequestSerializer.message: CharField(max_length=10000).
max_length == 10000

\* search_kwargs = {"k": 5}
TopK == 5

\* The low-confidence threshold 1.2, with distances counted in tenths.
LowConfidence == 12

\* float('inf'): above every distance.
Infinity == 99

\* Distances the collection can report: below, at and above the threshold.
Distances == {5, 12, 13}

\* A string is its text and its length.
ChatMessages == {[text |-> "hello", len |-> 5],
                 [text |-> "", len |-> 0],
                 [text |-> "essay", len |-> max_length + 1]}

ChatFaults == {"none", "persona", "engine", "chain", "search", "generate"}

\* ChatSession.title default.
NewChat == <<"New Chat">>

\* message[:50] + ("..." if len(message) > 50 else "")
Title(message) ==
    IF message.len > 50 THEN <<message.text, "[:50]", "...">>
    ELSE <<message.text>>

Note == "*Note: Your documents are currently being processed.*"

ChatFrame ==
    UNCHANGED <<prompts, docs, docSeq, files, vectors, jobs, requests, ocr,
                chroma_client, clients, callers, uploads, bm25>>

Min(a, b) == IF a <= b THEN a ELSE b

\* similarity_search_with_score without the user filter.
similarity_search_with_score_unfiltered(user_id) ==
    LET pool == DOMAIN vectors
        n == Min(TopK, BagCardinality([r \in pool |-> vectors[r]]))
    IN  {s \in [1..n -> pool \X Distances] :
            /\ \A i \in 1..(n - 1) : s[i][2] <= s[i + 1][2]
            /\ \A r \in pool :
                  Cardinality({i \in 1..n : s[i][1] = r}) <= vectors[r]}

\* vector_store.similarity_search_with_score(question, k=5, filter=...): the
\* results it can return, (chunk, distance) pairs by ascending distance.  The
\* distances depend on the question and the embedding, so any are possible.
similarity_search_with_score(user_id) ==
    LET pool == IF user_id # NoUser THEN VectorsOf(vectors, user_id)
                ELSE DOMAIN vectors
        n == Min(TopK, BagCardinality([r \in pool |-> vectors[r]]))
    IN  {s \in [1..n -> pool \X Distances] :
            /\ \A i \in 1..(n - 1) : s[i][2] <= s[i + 1][2]
            /\ \A r \in pool :
                  Cardinality({i \in 1..n : s[i][1] = r}) <= vectors[r]}

\* One citation record of RAGEngine.query.
Citation(doc) == [source |-> doc.source, content |-> doc.chunk, page |-> NULL]

\* RAGEngine.query comparing the best distance with >= 1.2.
query_at_threshold(user_id, found, fault) ==
    IF fault = "chain"
    THEN [raised |-> "vector store unavailable", searched |-> FALSE,
          docs_with_scores |-> <<>>]
    ELSE LET returned == fault # "search"
             docs_with_scores == IF returned THEN found ELSE <<>>
             best_score == IF docs_with_scores # <<>>
                           THEN docs_with_scores[1][2] ELSE Infinity
             suggested_action ==
                 IF ~returned THEN "web_search"
                 ELSE IF docs_with_scores = <<>> \/ best_score >= LowConfidence
                      THEN "web_search" ELSE NULL
             chunks == [i \in DOMAIN docs_with_scores |->
                           docs_with_scores[i][1]]
         IN  IF fault = "generate"
             THEN [raised |-> "model unreachable", searched |-> TRUE,
                   docs_with_scores |-> docs_with_scores]
             ELSE [raised |-> NULL, searched |-> TRUE,
                   docs_with_scores |-> docs_with_scores,
                   response |-> <<"answer">>,
                   citations |-> [i \in DOMAIN chunks |-> Citation(chunks[i])],
                   suggested_action |-> suggested_action]

\* RAGEngine.query.  build_chain runs before the try block, so a failure of
\* it ("chain") leaves the method; a failure of the similarity search
\* ("search") is caught and answered without documents; chain.invoke
\* ("generate") runs after the try block.
query(user_id, found, fault) ==
    IF fault = "chain"
    THEN [raised |-> "vector store unavailable", searched |-> FALSE,
          docs_with_scores |-> <<>>]
    ELSE LET returned == fault # "search"
             docs_with_scores == IF returned THEN found ELSE <<>>
             best_score == IF docs_with_scores # <<>>
                           THEN docs_with_scores[1][2] ELSE Infinity
             suggested_action ==
                 IF ~returned THEN "web_search"
                 ELSE IF docs_with_scores = <<>> \/ best_score > LowConfidence
                      THEN "web_search" ELSE NULL
             chunks == [i \in DOMAIN docs_with_scores |->
                           docs_with_scores[i][1]]
         IN  IF fault = "generate"
             THEN [raised |-> "model unreachable", searched |-> TRUE,
                   docs_with_scores |-> docs_with_scores]
             ELSE [raised |-> NULL, searched |-> TRUE,
                   docs_with_scores |-> docs_with_scores,
                   response |-> <<"answer">>,
                   citations |-> [i \in DOMAIN chunks |-> Citation(chunks[i])],
                   suggested_action |-> suggested_action]

\* RAGEngine.general_query: no retrieval, only chain.invoke can fail.
general_query(fault) ==
    IF fault = "generate"
    THEN [raised |-> "model unreachable", searched |-> FALSE,
          docs_with_scores |-> <<>>]
    ELSE [raised |-> NULL, searched |-> FALSE, docs_with_scores |-> <<>>,
          response |-> <<"answer">>, citations |-> <<>>,
          suggested_action |-> "web_search"]

\* has_indexed computed over the documents of every user.
has_indexed_any(u) ==
    \E d \in DOMAIN docs : docs[d].index_status = "indexed"

\* user_docs.filter(index_status=INDEXED).exists()
has_indexed(u) ==
    \E d \in DocQueryset(u) : docs[d].index_status = "indexed"

\* user_docs.filter(index_status__in=[PENDING, PROCESSING]).exists()
has_pending(u) ==
    \E d \in DocQueryset(u) : docs[d].index_status \in {"pending", "processing"}

\* ChatSession.objects.get(id=session_id) without the user.
SessionExists_any(u, session_id) ==
    /\ session_id # 0
    /\ session_id \in DOMAIN sessions

\* if session_id: ChatSession.objects.get(id=session_id, user=request.user)
\* finds a row (otherwise DoesNotExist, and a session is created).
SessionExists(u, session_id) ==
    /\ session_id # 0
    /\ session_id \in DOMAIN sessions
    /\ sessions[session_id].user = u

\* POST /api/chat/.  session_id 0 stands for an absent or null session_id.
\* The persona lookup catches only DoesNotExist and sits before the try
\* block; everything from the engine construction to the result is inside.
\* A fault names the step that fails if the request reaches it; raised is the
\* error that did occur.
chat(u, message, session_id, fault, found) ==
    IF message.len = 0 \/ message.len > max_length
    THEN /\ resp' = [op |-> "chat", code |-> 400]
         /\ UNCHANGED <<sessions, sessSeq, messages>>
         /\ ChatFrame
    ELSE LET existing == SessionExists(u, session_id)
             sid == IF existing THEN session_id ELSE sessSeq + 1
             opened == IF existing THEN sessions
                       ELSE Put(sessions, sid,
                                [user |-> u, title |-> NewChat, updated |-> 0])
             asked == Append(messages,
                             [session |-> sid, role |-> "user",
                              content |-> <<message.text>>, citations |-> <<>>])
             persona_raised == \/ fault = "persona"
                               \/ Cardinality(ActiveOf(prompts, u)) > 1
             result == IF fault = "engine"
                       THEN [raised |-> "engine unavailable",
                             searched |-> FALSE, docs_with_scores |-> <<>>]
                       ELSE IF has_indexed(u) THEN query(u, found, fault)
                       ELSE general_query(fault)
             failed == result.raised # NULL
             response_text ==
                 IF failed THEN <<"I encountered an error: ", result.raised>>
                 ELSE IF ~has_indexed(u) /\ has_pending(u)
                      THEN <<Note>> \o result.response
                      ELSE result.response
             citations == IF failed THEN <<>> ELSE result.citations
             answered == Append(asked,
                                [session |-> sid, role |-> "assistant",
                                 content |-> response_text,
                                 citations |-> citations])
             row == opened[sid]
             saved == IF row.title = NewChat
                      THEN [row EXCEPT !.title = Title(message),
                                       !.updated = @ + 1]
                      ELSE [row EXCEPT !.updated = @ + 1]
         IN  /\ sessSeq' = IF existing THEN sessSeq ELSE sessSeq + 1
             /\ ChatFrame
             /\ IF persona_raised
                THEN /\ sessions' = opened
                     /\ messages' = asked
                     /\ resp' = [op |-> "chat", code |-> 500, user |-> u,
                                 raised |-> IF fault = "persona"
                                            THEN "database error"
                                            ELSE "MultipleObjectsReturned",
                                 requested |-> session_id,
                                 session_id |-> sid]
                ELSE /\ sessions' = [opened EXCEPT ![sid] = saved]
                     /\ messages' = answered
                     /\ resp' = [op |-> "chat", code |-> 200, user |-> u,
                                 message |-> message,
                                 raised |-> result.raised,
                                 response |-> response_text,
                                 citations |-> citations,
                                 requested |-> session_id,
                                 session_id |-> sid,
                                 grounded |-> has_indexed(u),
                                 searched |-> result.searched,
                                 hits |-> result.docs_with_scores,
                                 suggested_action |->
                                     IF failed THEN NULL
                                     ELSE result.suggested_action]

\* RAGEngine.query called on its own, outside a request.
Ask(u, fault, found) ==
    /\ resp' = [op |-> "query", user |-> u, fault |-> fault,
                found |-> found, result |-> query(u, found, fault)]
    /\ UNCHANGED <<sessions, sessSeq, messages>>
    /\ ChatFrame

(***************************************************************************)
(* The chat request in its two database phases, for requests that overlap: *)
(* up to the user message (views.py 262-283), and from the persona lookup  *)
(* to the response (285-341).  The request keeps the session object it     *)
(* loaded; session.save() writes all its fields back.                      *)
(***************************************************************************)
MaxRequests == 2

TurnMessages == {[text |-> "hello", len |-> 5], [text |-> "again", len |-> 5]}

TurnFaults == {"none", "persona", "generate"}

TurnFrame == UNCHANGED <<prompts, docs, docSeq, files, vectors, jobs, ocr,
              chroma_client, clients, callers, uploads, bm25>>

\* ChatMessage.objects.create putting the row first.
CreateMessage_first(table, row) == <<row>> \o table

\* ChatMessage.objects.create: a new row, after every existing one.
CreateMessage(table, row) == Append(table, row)

chat_begin(u, message, session_id) ==
    /\ message.len > 0 /\ message.len <= max_length
    /\ LET existing == /\ session_id # 0
                       /\ session_id \in DOMAIN sessions
                       /\ sessions[session_id].user = u
           sid == IF existing THEN session_id ELSE sessSeq + 1
           session == IF existing THEN sessions[sid]
                      ELSE [user |-> u, title |-> NewChat, updated |-> 0]
           r == Cardinality(DOMAIN requests) + 1
       IN  /\ sessions' = Put(sessions, sid, session)
           /\ sessSeq' = IF existing THEN sessSeq ELSE sessSeq + 1
           /\ messages' = CreateMessage(messages,
                              [session |-> sid, role |-> "user",
                               content |-> <<message.text>>,
                               citations |-> <<>>])
           /\ requests' = Put(requests, r,
                              [user |-> u, message |-> message, sid |-> sid,
                               session |-> session, state |-> "asked",
                               asked_at |-> Len(messages) + 1])
           /\ resp' = [op |-> "chat_begin", request |-> r, session_id |-> sid]
    /\ TurnFrame

chat_answer(r, fault, found) ==
    /\ r \in DOMAIN requests
    /\ requests[r].state = "asked"
    /\ LET u == requests[r].user
           message == requests[r].message
           sid == requests[r].sid
           session == requests[r].session
           persona_raised == \/ fault = "persona"
                             \/ Cardinality(ActiveOf(prompts, u)) > 1
           result == IF has_indexed(u) THEN query(u, found, fault)
                     ELSE general_query(fault)
           failed == result.raised # NULL
           response_text ==
               IF failed THEN <<"I encountered an error: ", result.raised>>
               ELSE IF ~has_indexed(u) /\ has_pending(u)
                    THEN <<Note>> \o result.response
                    ELSE result.response
           citations == IF failed THEN <<>> ELSE result.citations
           saved == IF session.title = NewChat
                    THEN [session EXCEPT !.title = Title(message),
                                         !.updated = sessions[sid].updated + 1]
                    ELSE [session EXCEPT !.updated = sessions[sid].updated + 1]
       IN  IF persona_raised
           THEN /\ resp' = [op |-> "chat_answer", code |-> 500, request |-> r]
                /\ UNCHANGED <<sessions, messages>>
           ELSE /\ messages' = CreateMessage(messages,
                                   [session |-> sid, role |-> "assistant",
                                    content |-> response_text,
                                    citations |-> citations])
                /\ sessions' = Put(sessions, sid, saved)
                /\ resp' = [op |-> "chat_answer", code |-> 200,
                            request |-> r,
                            message |-> message,
                            session_id |-> sid,
                            asked_at |-> requests[r].asked_at,
                            response |-> response_text,
                            citations |-> citations]
    /\ requests' = [requests EXCEPT ![r].state = IF resp'.code = 200
                                                 THEN "answered"
                                                 ELSE "failed"]
    /\ UNCHANGED sessSeq
    /\ TurnFrame

(***************************************************************************)
(* Maintenance: the repair command (management/commands/fix_citations.py), *)
(* run over every Document in one pass.                                    *)
(***************************************************************************)
MaxRepairDocs == 2
MaxRepairVectors == 3

\* delete_from_vector_store that deletes nothing.
delete_from_skipped(bag, p, collection_up) == bag

\* VectorStoreManager.delete_from_vector_store applied to a collection value:
\* a failing collection call is swallowed and leaves the collection as it was.
delete_from(bag, p, collection_up) ==
    IF collection_up
    THEN LET first == DeleteWhere(bag, VectorsAt(bag, p))
         IN  DeleteWhere(first, VectorsFrom(first, p))
    ELSE bag

\* VectorStoreManager.create_vector_store applied to a collection value.
add_to(bag, chunks, manager_user, backend_up) ==
    IF chunks = {}
    THEN [raised |-> "No chunks provided", vectors |-> bag]
    ELSE IF ~backend_up
    THEN [raised |-> "embedding backend unreachable", vectors |-> bag]
    ELSE LET stamped == {IF manager_user # NoUser /\ c.user_id = NoKey
                         THEN [c EXCEPT !.user_id = Str(manager_user)]
                         ELSE c : c \in chunks}
         IN  [raised |-> NULL, vectors |-> bag (+) SetToBag(stamped)]

\* The number of stored records, copies counted, for a file path.
CopiesAt(bag, p) == BagCardinality([r \in VectorsAt(bag, p) |-> bag[r]])

\* One round of the loop of Command.handle, lines 22-77, for Document d.
RepairOne(st, d, collection_up, backend_up) ==
    LET doc == st.docs[d]
        path == doc.file_path
        loaded == load_single_document(files, path, doc.user,
                                       doc.original_filename)
        cleaned == delete_from(st.vectors, path, collection_up)
        added == add_to(cleaned, loaded.chunks, doc.user, backend_up)
    IN  IF PathName(path) \notin DOMAIN files
        THEN [st EXCEPT !.vectors = cleaned,
                        !.docs = Drop(st.docs, {d}),
                        !.deleted = @ \cup {path}]
        ELSE IF loaded.raised # NULL
        THEN [st EXCEPT !.docs[d] = TaskFailed(doc, loaded.raised)]
        ELSE IF loaded.chunks = {}
        THEN st
        ELSE IF added.raised # NULL
        THEN [st EXCEPT !.vectors = cleaned,
                        !.docs[d] = TaskFailed(doc, added.raised)]
        ELSE [st EXCEPT !.vectors = added.vectors,
                        !.docs[d] = [doc EXCEPT
                            !.index_status = "indexed",
                            !.chunk_count = Cardinality(loaded.chunks),
                            !.indexed_at = "now",
                            !.error_message = NULL],
                        !.fixed = @ \cup {d}]

\* The loop over Document.objects.all().
RECURSIVE RepairAll(_, _, _, _)
RepairAll(st, todo, collection_up, backend_up) ==
    IF todo = {} THEN st
    ELSE LET d == CHOOSE x \in todo : \A y \in todo : x <= y
         IN  RepairAll(RepairOne(st, d, collection_up, backend_up),
                       todo \ {d}, collection_up, backend_up)

\* python manage.py fix_citations
repair(collection_up, backend_up) ==
    /\ LET out == RepairAll([docs |-> docs, vectors |-> vectors,
                             fixed |-> {}, deleted |-> {}],
                            DOMAIN docs, collection_up, backend_up)
       IN  /\ docs' = out.docs
           /\ vectors' = out.vectors
           /\ resp' = [op |-> "repair", fixed |-> out.fixed,
                       deleted |-> out.deleted,
                       collection_up |-> collection_up]
    /\ UNCHANGED <<docSeq, files, jobs>>
    /\ DocsFrame

\* The upload directory is on ephemeral storage: a stored file is lost.
lose_file(name) ==
    /\ name \in DOMAIN files
    /\ files' = Drop(files, {name})
    /\ resp' = [op |-> "lose_file"]
    /\ UNCHANGED <<docs, docSeq, vectors, jobs>>
    /\ DocsFrame

(***************************************************************************)
(* The per-record operations: get_object() looks the key up in the         *)
(* requester's queryset and answers 404 when it is not there.              *)
(***************************************************************************)
MaxOwned == 2

\* The body of the 404 that get_object() raises.
NotFound == "Not found."

ReadFrame ==
    UNCHANGED <<prompts, docs, docSeq, files, vectors, jobs, sessions,
                sessSeq, messages, requests, ocr,
                chroma_client, clients, callers, uploads, bm25>>

\* ChatSession.objects.all(), without the owner filter.
SessionQueryset_all(u) == DOMAIN sessions

\* ChatSessionViewSet.get_queryset: the sessions the requester owns.
SessionQueryset(u) == {s \in DOMAIN sessions : sessions[s].user = u}

\* session.messages.all(): the rows of one session, in creation order.
MessagesOf(s) ==
    LET In(m) == m.session = s IN SelectSeq(messages, In)

\* The table once the rows of one session are deleted.
MessagesNotOf(s) ==
    LET Out(m) == m.session # s IN SelectSeq(messages, Out)

\* GET /api/documents/{id}/status/
get_status(u, d) ==
    /\ resp' = IF d \in DocQueryset(u)
               THEN [op |-> "status", user |-> u, pk |-> d, code |-> 200,
                     body |-> [id |-> d,
                               index_status |-> docs[d].index_status,
                               chunk_count |-> docs[d].chunk_count,
                               error_message |-> docs[d].error_message]]
               ELSE [op |-> "status", user |-> u, pk |-> d, code |-> 404,
                     body |-> NotFound]
    /\ ReadFrame

\* GET /api/documents/{id}/preview/ (the viewset action)
preview(u, d) ==
    /\ resp' = IF d \notin DocQueryset(u)
               THEN [op |-> "preview", user |-> u, pk |-> d, code |-> 404,
                     body |-> NotFound]
               ELSE IF PathName(docs[d].file_path) \notin DOMAIN files
               THEN [op |-> "preview", user |-> u, pk |-> d, code |-> 404,
                     body |-> "File not found"]
               ELSE [op |-> "preview", user |-> u, pk |-> d, code |-> 200,
                     body |-> files[PathName(docs[d].file_path)]]
    /\ ReadFrame

\* GET /api/documents/{pk}/preview/ (the function view preview_document)
preview_document(u, d) ==
    /\ resp' = IF d \notin DOMAIN docs \/ docs[d].user # u
               THEN [op |-> "preview_document", user |-> u, pk |-> d,
                     code |-> 404, body |-> "Document not found"]
               ELSE IF PathName(docs[d].file_path) \notin DOMAIN files
               THEN [op |-> "preview_document", user |-> u, pk |-> d,
                     code |-> 404, body |-> "File not found"]
               ELSE [op |-> "preview_document", user |-> u, pk |-> d,
                     code |-> 200,
                     body |-> files[PathName(docs[d].file_path)]]
    /\ ReadFrame

\* GET /api/sessions/{id}/
session_retrieve(u, s) ==
    /\ resp' = IF s \in SessionQueryset(u)
               THEN [op |-> "session_retrieve", user |-> u, pk |-> s,
                     code |-> 200,
                     body |-> [title |-> sessions[s].title,
                               messages |-> MessagesOf(s)]]
               ELSE [op |-> "session_retrieve", user |-> u, pk |-> s,
                     code |-> 404, body |-> NotFound]
    /\ ReadFrame

\* GET /api/sessions/{id}/messages/
session_messages(u, s) ==
    /\ resp' = IF s \in SessionQueryset(u)
               THEN [op |-> "session_messages", user |-> u, pk |-> s,
                     code |-> 200, body |-> MessagesOf(s)]
               ELSE [op |-> "session_messages", user |-> u, pk |-> s,
                     code |-> 404, body |-> NotFound]
    /\ ReadFrame

\* DELETE /api/sessions/{id}/clear/
clear_messages(u, s) ==
    /\ IF s \in SessionQueryset(u)
       THEN /\ messages' = MessagesNotOf(s)
            /\ resp' = [op |-> "clear_messages", user |-> u, pk |-> s,
                        code |-> 200, body |-> "Messages cleared"]
       ELSE /\ UNCHANGED messages
            /\ resp' = [op |-> "clear_messages", user |-> u, pk |-> s,
                        code |-> 404, body |-> NotFound]
    /\ UNCHANGED <<sessions, sessSeq>>
    /\ ChatFrame

\* DELETE /api/sessions/{id}/ : the messages go with the session (CASCADE).
session_destroy(u, s) ==
    /\ IF s \in SessionQueryset(u)
       THEN /\ sessions' = Drop(sessions, {s})
            /\ messages' = MessagesNotOf(s)
            /\ resp' = [op |-> "session_destroy", user |-> u, pk |-> s,
                        code |-> 204, body |-> NULL]
       ELSE /\ UNCHANGED <<sessions, messages>>
            /\ resp' = [op |-> "session_destroy", user |-> u, pk |-> s,
                        code |-> 404, body |-> NotFound]
    /\ UNCHANGED sessSeq
    /\ ChatFrame

\* GET /api/prompts/{id}/
prompt_retrieve(u, id) ==
    /\ resp' = IF id \in PromptQueryset(u)
               THEN [op |-> "prompt_retrieve", user |-> u, pk |-> id,
                     code |-> 200, body |-> prompts[id]]
               ELSE [op |-> "prompt_retrieve", user |-> u, pk |-> id,
                     code |-> 404, body |-> NotFound]
    /\ ReadFrame

(***************************************************************************)
(* The create and update routes that ModelViewSet gives the documents      *)
(* resource, with DocumentSerializer deciding which fields a client writes.*)
(***************************************************************************)
MaxWriteDocs == 2

\* What a client may send: values for the two fields that are not in
\* read_only_fields, and values for read-only fields, which are dropped.
DocumentData ==
    [original_filename : {<<"notes", "TXT">>, <<"other", "md">>},
     file_type : {"txt", "md"},
     index_status : {"indexed"},
     chunk_count : {7}]

\* The validated data of DocumentSerializer: the fields of Meta.fields that
\* are not in Meta.read_only_fields.
WritableFields(data) ==
    [f \in {"original_filename", "file_type"} |-> data[f]]

\* POST /api/documents/ : CreateModelMixin.create, serializer.save() with
\* the model defaults for everything the client does not write.
document_create(u, data) ==
    LET id == docSeq + 1
        validated == WritableFields(data)
        defaults == [user |-> NoUser, filename |-> <<>>,
                     original_filename |-> <<>>, file_path |-> <<>>,
                     file_size |-> 0, file_type |-> "",
                     index_status |-> "pending", chunk_count |-> 0,
                     error_message |-> NULL, indexed_at |-> NULL]
        created == [f \in DOMAIN defaults |->
                      IF f \in DOMAIN validated THEN validated[f]
                      ELSE defaults[f]]
    IN  /\ docSeq' = id
        /\ docs' = Put(docs, id, created)
        /\ resp' = [op |-> "document_create", user |-> u, code |-> 201,
                    id |-> id, body |-> created]
        /\ UNCHANGED <<files, vectors, jobs>>
        /\ DocsFrame

\* PUT and PATCH /api/documents/{id}/ : UpdateModelMixin.update.
document_update(u, d, data) ==
    /\ IF d \notin DocQueryset(u)
       THEN /\ UNCHANGED docs
            /\ resp' = [op |-> "document_update", user |-> u, code |-> 404,
                        id |-> d, body |-> NotFound]
       ELSE LET validated == WritableFields(data)
                saved == [f \in DOMAIN docs[d] |->
                            IF f \in DOMAIN validated THEN validated[f]
                            ELSE docs[d][f]]
            IN  /\ docs' = Put(docs, d, saved)
                /\ resp' = [op |-> "document_update", user |-> u,
                            code |-> 200, id |-> d, body |-> saved]
    /\ UNCHANGED <<docSeq, files, vectors, jobs>>
    /\ DocsFrame

(***************************************************************************)
(* The upload request in its two steps, for what runs in between: up to    *)
(* the file written to the data directory (views.py 80-96), and from       *)
(* Document.objects.create to the response (98-136).                       *)
(***************************************************************************)
MaxRaceUploads == 2

RaceFrame ==
    UNCHANGED <<prompts, sessions, sessSeq, messages, requests, ocr,
                chroma_client, clients, callers>>

\* upload up to line 96: the file is on disk under its generated name.
upload_write(u, f) ==
    /\ validate_file(f)
    /\ LET k == Cardinality(DOMAIN uploads) + 1
       IN  /\ files' = Put(files, UniqueFilename(k, f.name), f.content)
           /\ uploads' = Put(uploads, k, [user |-> u, file |-> f,
                                          state |-> "written", id |-> 0])
           /\ resp' = [op |-> "upload_write", request |-> k]
    /\ UNCHANGED <<docs, docSeq, vectors, jobs, bm25>>
    /\ RaceFrame

\* upload from line 98 on: the record, then the job or the fallback.
upload_record(k, queue_up, backend_up) ==
    /\ k \in DOMAIN uploads
    /\ uploads[k].state = "written"
    /\ LET u == uploads[k].user
           f == uploads[k].file
           id == docSeq + 1
           created == NewDocument(u, k, f)
           sync == SyncFallback(created, files, u, backend_up)
           saved == IF queue_up THEN created ELSE sync.saved
       IN  /\ docSeq' = id
           /\ docs' = Put(docs, id, saved)
           /\ jobs' = IF queue_up
                      THEN Put(jobs, id, [state |-> "queued", retries |-> 0,
                                          attempts |-> 0,
                                          document |-> NoDocument])
                      ELSE jobs
           /\ vectors' = IF queue_up THEN vectors ELSE sync.vectors
           /\ bm25' = IF queue_up THEN bm25 ELSE sync.keywords
           /\ uploads' = [uploads EXCEPT ![k].state = "recorded",
                                         ![k].id = id]
           /\ resp' = [op |-> "upload", code |-> 201, id |-> id,
                       file |-> f, queued |-> queue_up,
                       backend_up |-> backend_up, body |-> saved]
    /\ UNCHANGED files
    /\ RaceFrame

\* No upload request is between its two steps.
NoUploadInProgress == \A k \in DOMAIN uploads : uploads[k].state = "recorded"

(***************************************************************************)
(* Housekeeping jobs (api/tasks.py).                                       *)
(***************************************************************************)
MaxCleanupDocs == 2

\* The orders in which iterdir() may list a set of names.
Orderings(names) ==
    {list \in [1..Cardinality(names) -> names] :
        \A i, j \in DOMAIN list : i # j => list[i] # list[j]}

\* db_filenames read from the display names.
db_filenames_original == {docs[d].original_filename : d \in DOMAIN docs}

\* set(Document.objects.values_list('filename', flat=True))
db_filenames == {docs[d].filename : d \in DOMAIN docs}

\* cleanup_orphaned_files_task.  dir_exists: whether settings.DATA_DIR is
\* there; the first accepted upload creates it.
cleanup_orphaned_files_task(dir_exists, removed) ==
    /\ dir_exists \/ docSeq = 0
    /\ IF ~dir_exists
       THEN /\ files = <<>>
            /\ removed = <<>>
            /\ files' = files
            /\ resp' = [op |-> "cleanup",
                        message |-> "Data directory does not exist"]
       ELSE /\ removed \in Orderings({name \in DOMAIN files :
                                         name \notin db_filenames})
            /\ files' = Drop(files, {removed[i] : i \in DOMAIN removed})
            /\ resp' = [op |-> "cleanup", removed_files |-> removed,
                        count |-> Len(removed)]
    /\ UNCHANGED <<docs, docSeq, vectors, jobs>>
    /\ DocsFrame

MaxReindexDocs == 2
MaxReindexVectors == 2

\* DocumentProcessor.load_all_documents: the chunks of every file of the
\* data directory the globs match, loaded without owner and without
\* display name; a file that fails to load is skipped.
load_all_documents ==
    LET globbed == {name \in DOMAIN files :
                       \/ name[Len(name)] \in {"pdf", "txt", "md"}
                       \/ ocr /\ name[Len(name)] \in
                             {"png", "jpg", "jpeg", "tiff", "tif", "bmp"}}
    IN  UNION {load_single_document(files, DataPath(name), NoUser, <<>>).chunks :
                  name \in globbed}

\* The filter of the bulk update that takes every status.
Reindexed_all == IndexStatus

\* index_status__in of the bulk update.
Reindexed == {"indexed", "failed"}

ReindexFaults == {"none", "load", "store"}

\* reindex_all_documents_task.  fault: the step that raises inside the try
\* block, loading the files or storing the chunks.
reindex_all_documents_task(fault) ==
    LET all_chunks == IF fault = "load" THEN {} ELSE load_all_documents
        stored == create_vector_store(all_chunks, NoUser, fault # "store")
        raised == IF fault = "load" THEN "loading failed"
                  ELSE IF all_chunks = {} THEN NULL
                  ELSE stored.raised
        updated == raised = NULL /\ all_chunks # {}
    IN  /\ vectors' = IF updated THEN stored.vectors ELSE vectors
        /\ docs' = IF updated
                   THEN [d \in DOMAIN docs |->
                           IF docs[d].index_status \in Reindexed
                           THEN [docs[d] EXCEPT !.index_status = "indexed",
                                                !.indexed_at = "now",
                                                !.error_message = NULL]
                           ELSE docs[d]]
                   ELSE docs
        /\ resp' = [op |-> "reindex_all", raised |-> raised,
                    total_chunks |-> Cardinality(all_chunks)]
        /\ UNCHANGED <<docSeq, files, jobs>>
        /\ DocsFrame

(***************************************************************************)
(* Hybrid retrieval (rag/hybrid_search.py).  A Document is its page        *)
(* content and its source; a ranked list is a sequence of Documents, best  *)
(* first.  Weights are in tenths and a score is in units of 10^-9, the     *)
(* quotient rounded down, so that scores compare as the floats do.         *)
(***************************************************************************)
MaxList == 3
MaxMatches == 6
MaxK == 6

semantic_weight == 6
bm25_weight == 4
rrf_k == 60
hybrid_k == 5

FusionDocs == [page_content : 1..2, source : 1..2]

\* The sequences over set s of length at most n.
Lists(s, n) == UNION {[1..m -> s] : m \in 0..n}

\* list[:n]
Take(list, n) == SubSeq(list, 1, Min(n, Len(list)))

\* weight / (rrf_k + rank), lines 159 and 165.
Contribution(weight, rank) == (weight * 100000000) \div (rrf_k + rank)

\* What one loop adds to rrf_scores[hash(content)]: one contribution for
\* every position at which the list holds that content.
RECURSIVE RankSum(_, _, _, _)
RankSum(list, content, weight, rank) ==
    IF rank > Len(list) THEN 0
    ELSE (IF list[rank].page_content = content
          THEN Contribution(weight, rank) ELSE 0)
         + RankSum(list, content, weight, rank + 1)

\* rrf_scores after both loops.
rrf_scores(semantic_docs, bm25_results, content) ==
    RankSum(semantic_docs, content, semantic_weight, 1)
      + RankSum(bm25_results, content, bm25_weight, 1)

\* doc_map after both loops: the semantic loop overwrites, the keyword loop
\* fills in only what is absent.
doc_map(semantic_docs, bm25_results, content) ==
    LET sem == {i \in DOMAIN semantic_docs :
                   semantic_docs[i].page_content = content}
        kw == {i \in DOMAIN bm25_results :
                  bm25_results[i].page_content = content}
    IN  IF sem # {}
        THEN semantic_docs[CHOOSE i \in sem : \A j \in sem : j <= i]
        ELSE bm25_results[CHOOSE i \in kw : \A j \in kw : i <= j]

\* rrf_scores.keys(): the contents in the order of their first insertion.
RECURSIVE Keys(_, _)
Keys(list, seen) ==
    IF list = <<>> THEN <<>>
    ELSE LET c == Head(list).page_content
         IN  IF c \in seen THEN Keys(Tail(list), seen)
             ELSE <<c>> \o Keys(Tail(list), seen \cup {c})

\* One step of sorted(..., reverse=True): the sort is stable, so a key goes
\* behind every key whose score is not smaller.
RECURSIVE InsertByScore(_, _, _, _)
InsertByScore(sorted, key, semantic_docs, bm25_results) ==
    IF sorted = <<>> THEN <<key>>
    ELSE IF rrf_scores(semantic_docs, bm25_results, Head(sorted))
              >= rrf_scores(semantic_docs, bm25_results, key)
    THEN <<Head(sorted)>> \o InsertByScore(Tail(sorted), key,
                                          semantic_docs, bm25_results)
    ELSE <<key>> \o sorted

RECURSIVE SortedIds(_, _, _)
SortedIds(keys, semantic_docs, bm25_results) ==
    IF keys = <<>> THEN <<>>
    ELSE InsertByScore(SortedIds(SubSeq(keys, 1, Len(keys) - 1),
                                 semantic_docs, bm25_results),
                       keys[Len(keys)], semantic_docs, bm25_results)

\* HybridRetriever._reciprocal_rank_fusion.  Of a keyword result, a
\* (document, score) pair, the fusion reads the document and the position.
reciprocal_rank_fusion(semantic_docs, bm25_results, k) ==
    LET sorted_ids == SortedIds(Keys(semantic_docs \o bm25_results, {}),
                                semantic_docs, bm25_results)
        top == Take(sorted_ids, k)
    IN  [i \in DOMAIN top |-> doc_map(semantic_docs, bm25_results, top[i])]

\* BM25Index.search: nothing while no document was added (bm25 is None),
\* otherwise the k best of the index, which the ranking lists best first.
search(ranking, k) == IF ranking = <<>> THEN <<>> ELSE Take(ranking, k)

\* HybridRetriever._get_relevant_documents, given what the vector retriever
\* returns for the query and the ranking of the keyword index for it.
get_relevant_documents(semantic, ranking) ==
    LET fetch_k == hybrid_k * 2
        semantic_docs == Take(semantic, fetch_k)
        bm25_results == search(ranking, fetch_k)
    IN  IF bm25_results = <<>> THEN Take(semantic_docs, hybrid_k)
        ELSE reciprocal_rank_fusion(semantic_docs, bm25_results, hybrid_k)

\* The n best matches of the collection for a query, by distance.
Matches(n) == [i \in 1..n |-> [page_content |-> i, source |-> 1]]

\* RAGEngine.get_retriever(k).invoke(query): the vector retriever is built
\* with k, the hybrid retriever on top of it is not.
retrieve(k, matches, ranking) ==
    /\ resp' = [op |-> "retrieve", k |-> k, matches |-> matches,
                ranking |-> ranking,
                result |-> get_relevant_documents(Take(matches, k), ranking)]
    /\ ReadFrame

\* _reciprocal_rank_fusion called on two ranked lists.
fuse(semantic_docs, bm25_results, k) ==
    /\ resp' = [op |-> "fuse", k |-> k, semantic_docs |-> semantic_docs,
                bm25_results |-> bm25_results,
                result |-> reciprocal_rank_fusion(semantic_docs,
                                                  bm25_results, k)]
    /\ ReadFrame

(***************************************************************************)
(* The process-wide Chroma client (rag/service.py 82-103), called from the *)
(* request threads of one process.  A client is the number of its          *)
(* construction; 0 is None.  A call is three steps: the test of the        *)
(* global, the construction with the assignment, and the return, which     *)
(* reads the global again.                                                 *)
(***************************************************************************)
MaxThreads == 2
MaxCalls == 2

Threads == 1..MaxThreads

\* A thread that is not inside get_chroma_client: the calls it has made and
\* the handles they returned.
Idle == [pc |-> "idle", calls |-> 0, got |-> {}]

ClientFrame ==
    UNCHANGED <<prompts, docs, docSeq, files, vectors, jobs, sessions,
                sessSeq, messages, requests, ocr, uploads, bm25>>

\* if _CHROMA_CLIENT is None:
client_test(t) ==
    /\ callers[t].pc = "idle"
    /\ callers[t].calls < MaxCalls
    /\ callers' = [callers EXCEPT
                      ![t].pc = IF chroma_client = 0 THEN "construct"
                                ELSE "return",
                      ![t].calls = @ + 1]
    /\ resp' = [op |-> "client_test", thread |-> t]
    /\ UNCHANGED <<chroma_client, clients>>
    /\ ClientFrame

\* _CHROMA_CLIENT = chromadb.HttpClient(...) or chromadb.PersistentClient(...)
client_construct(t) ==
    /\ callers[t].pc = "construct"
    /\ clients' = clients + 1
    /\ chroma_client' = clients + 1
    /\ callers' = [callers EXCEPT ![t].pc = "return"]
    /\ resp' = [op |-> "client_construct", thread |-> t]
    /\ ClientFrame

\* return _CHROMA_CLIENT
client_return(t) ==
    /\ callers[t].pc = "return"
    /\ callers' = [callers EXCEPT ![t].pc = "idle",
                                  ![t].got = @ \cup {chroma_client}]
    /\ resp' = [op |-> "client_return", thread |-> t,
                handle |-> chroma_client]
    /\ UNCHANGED <<chroma_client, clients>>
    /\ ClientFrame

\* No other thread is inside get_chroma_client.
Alone(t) == \A o \in Threads \ {t} : callers[o].pc = "idle"

Init ==
    /\ prompts = <<>>
    /\ docs = <<>>
    /\ docSeq = 0
    /\ files = <<>>
    /\ vectors = EmptyBag
    /\ jobs = <<>>
    /\ sessions = <<>>
    /\ sessSeq = 0
    /\ messages = <<>>
    /\ requests = <<>>
    /\ ocr \in BOOLEAN
    /\ chroma_client = 0
    /\ clients = 0
    /\ callers = [t \in Threads |-> Idle]
    /\ uploads = <<>>
    /\ bm25 = [key \in Users \cup {NoUser} |-> <<>>]
    /\ resp = [op |-> "none"]

NextPersona ==
    \/ \E u \in Users, c \in Contents, a \in BOOLEAN : PromptCreate(u, c, a)
    \/ \E u \in Users, id \in PromptIds, c \in Contents, a \in BOOLEAN :
          PromptUpdate(u, id, c, a)
    \/ \E u \in Users, id \in PromptIds : activate(u, id)
    \/ \E u \in Users : reset_to_default(u)

SpecPersona == Init /\ [][NextPersona]_vars

\* Upload alone, with every kind of file a client may send.
NextUpload ==
    \E u \in Users, f \in UploadFiles, q \in BOOLEAN, b \in BOOLEAN :
        /\ validate_file(f) => docSeq < MaxUploads
        /\ upload(u, f, q, b)

SpecUpload == Init /\ [][NextUpload]_vars

\* The accepted files among UploadFiles.
AcceptedFiles == {f \in UploadFiles : validate_file(f)}

\* Upload and the worker running the index-one-document job.
NextJob ==
    \/ \E u \in Users, f \in AcceptedFiles, q \in BOOLEAN, b \in BOOLEAN :
          /\ docSeq < MaxJobDocs
          /\ upload(u, f, q, b)
    \/ \E d \in DOMAIN jobs : IndexBegin(d)
    \/ \E d \in DOMAIN jobs, b \in BOOLEAN : IndexFinish(d, b)

SpecJob == Init /\ [][NextJob]_vars

\* Text files of one chunk or more, as SpecDocs uploads them.
TextFiles == [name : {<<"notes", "TXT">>}, size : {max_size}, content : 1..MaxChunks]

\* Document ids a client may name: every id handed out so far and one more.
KnownIds == 1..(docSeq + 1)

\* Upload, delete and reset on a deployment without OCR while no worker
\* consumes the queue: documents are indexed by the synchronous fallback or
\* stay pending.  The faults are those of the fallback, delete and reset.
NextDocs ==
    \/ \E u \in Users, f \in TextFiles, q \in BOOLEAN, b \in BOOLEAN :
          /\ docSeq < MaxDocs
          /\ upload(u, f, q, b)
    \/ \E u \in Users, d \in KnownIds, ft \in DestroyFaults : destroy(u, d, ft)
    \/ \E u \in Users, ft \in ResetFaults :
          \E bad \in {0} \cup DocQueryset(u) : reset_knowledge(u, ft, bad)

InitDocs == Init /\ ~ocr

SpecDocs == InitDocs /\ [][NextDocs]_vars

\* Chat over documents that were uploaded and indexed: text files of one
\* chunk, an embedding backend that is up.
ChatFiles == [name : {<<"notes", "TXT">>}, size : {max_size}, content : {1}]

NextChat ==
    \/ \E u \in Users, f \in ChatFiles, q \in BOOLEAN :
          docSeq < MaxChatDocs /\ upload(u, f, q, TRUE)
    \/ \E d \in DOMAIN jobs : IndexBegin(d)
    \/ \E d \in DOMAIN jobs : IndexFinish(d, TRUE)
    \/ \E u \in Users, m \in ChatMessages, s \in 0..(sessSeq + 1),
          fault \in ChatFaults :
          /\ Len(messages) + 2 <= MaxMessages
          /\ \E found \in similarity_search_with_score(u) :
                chat(u, m, s, fault, found)

SpecChat == InitDocs /\ [][NextChat]_vars

\* The chunk the collection holds for the n-th upload, tagged with its owner
\* (or untagged, for NoUser).
StoredChunk(n, u) ==
    [source |-> <<"notes", "TXT">>,
     file_path |-> DataPath(UniqueFilename(n, <<"notes", "TXT">>)),
     user_id |-> IF u = NoUser THEN NoKey ELSE Str(u),
     chunk |-> 1]

\* A collection holding one chunk for some of the uploads 1..MaxQueryDocs.
InitQuery ==
    /\ prompts = <<>>
    /\ docs = <<>>
    /\ docSeq = MaxQueryDocs
    /\ files = <<>>
    /\ jobs = <<>>
    /\ sessions = <<>>
    /\ sessSeq = 0
    /\ messages = <<>>
    /\ requests = <<>>
    /\ ocr = FALSE
    /\ chroma_client = 0
    /\ clients = 0
    /\ callers = [t \in Threads |-> Idle]
    /\ uploads = <<>>
    /\ bm25 = [key \in Users \cup {NoUser} |-> <<>>]
    /\ resp = [op |-> "none"]
    /\ \E stored \in SUBSET (1..MaxQueryDocs) :
          \E owner \in [stored -> Users \cup {NoUser}] :
             vectors = SetToBag({StoredChunk(n, owner[n]) : n \in stored})

QueryFaults == {"none", "chain", "search", "generate"}

NextQuery ==
    \E u \in Users, fault \in QueryFaults :
       \E found \in similarity_search_with_score(u) : Ask(u, fault, found)

SpecQuery == InitQuery /\ [][NextQuery]_vars

\* Chat exchanges one after the other, without documents: a short message,
\* the message "New Chat", and one of more than 50 characters.
TitleMessages == {[text |-> "hello", len |-> 5],
                  [text |-> "New Chat", len |-> 8],
                  [text |-> "a long question", len |-> 51]}

NextTitle ==
    \E u \in Users, m \in TitleMessages, s \in 0..(sessSeq + 1) :
       /\ Len(messages) + 2 <= MaxTitleMessages
       /\ chat(u, m, s, "none", <<>>)

SpecTitle == InitDocs /\ [][NextTitle]_vars

\* Chat requests that overlap.
NextTurns ==
    \/ \E u \in Users, m \in TurnMessages, s \in 0..(sessSeq + 1) :
          /\ Cardinality(DOMAIN requests) < MaxRequests
          /\ chat_begin(u, m, s)
    \/ \E r \in DOMAIN requests, fault \in TurnFaults :
          chat_answer(r, fault, <<>>)

SpecTurns == InitDocs /\ [][NextTurns]_vars

\* The per-record operations of two users over a few records of each kind.
Created == docSeq + sessSeq + Cardinality(DOMAIN prompts)

NextOwner ==
    \/ \E u \in Users, f \in ChatFiles :
          Created < MaxOwned /\ upload(u, f, TRUE, TRUE)
    \/ \E u \in Users :
          /\ Created < MaxOwned
          /\ chat(u, [text |-> "hello", len |-> 5], 0, "none", <<>>)
    \/ \E u \in Users, a \in BOOLEAN :
          Created < MaxOwned /\ PromptCreate(u, "formal", a)
    \/ \E u \in Users, d \in 1..(docSeq + 1) : get_status(u, d)
    \/ \E u \in Users, d \in 1..(docSeq + 1) : preview(u, d)
    \/ \E u \in Users, d \in 1..(docSeq + 1) : preview_document(u, d)
    \/ \E u \in Users, d \in 1..(docSeq + 1) : destroy(u, d, "none")
    \/ \E u \in Users, s \in 1..(sessSeq + 1) : session_retrieve(u, s)
    \/ \E u \in Users, s \in 1..(sessSeq + 1) : session_messages(u, s)
    \/ \E u \in Users, s \in 1..(sessSeq + 1) : clear_messages(u, s)
    \/ \E u \in Users, s \in 1..(sessSeq + 1) : session_destroy(u, s)
    \/ \E u \in Users, id \in 1..(Cardinality(DOMAIN prompts) + 1) :
          prompt_retrieve(u, id)
    \/ \E u \in Users, id \in 1..(Cardinality(DOMAIN prompts) + 1) :
          activate(u, id)

SpecOwner == InitDocs /\ [][NextOwner]_vars

\* The repair command over documents indexed in the upload request, some of
\* which lost their file.
RepairFiles == [name : {<<"notes", "TXT">>}, size : {max_size}, content : 0..1]

NextRepair ==
    \/ \E u \in Users, f \in RepairFiles, b \in BOOLEAN :
          docSeq < MaxRepairDocs /\ upload(u, f, FALSE, b)
    \/ \E name \in DOMAIN files : lose_file(name)
    \/ \E c \in BOOLEAN, b \in BOOLEAN :
          BagCardinality(vectors) < MaxRepairVectors /\ repair(c, b)

SpecRepair == InitDocs /\ [][NextRepair]_vars

\* One retrieval through get_retriever(k), over a collection with up to
\* MaxMatches matches for the query and a keyword index that is empty or not.
\* A retrieval reads no state, so one call per behaviour covers them all.
NextHybrid ==
    /\ resp.op # "retrieve"
    /\ \E k \in 1..MaxK, n \in 0..MaxMatches,
          ranking \in Lists(FusionDocs, MaxList) :
          retrieve(k, Matches(n), ranking)

SpecHybrid == InitDocs /\ [][NextHybrid]_vars

\* One fusion of two ranked lists, equal contents included: uploading a file
\* twice stores its chunks twice.
NextFusion ==
    /\ resp.op # "fuse"
    /\ \E s \in Lists(FusionDocs, MaxList),
          b \in Lists(FusionDocs, MaxList), k \in 1..MaxList :
          fuse(s, b, k)

SpecFusion == InitDocs /\ [][NextFusion]_vars

\* The cleanup job over an upload directory that deletes whose unlink failed
\* have left files in.
CleanupFiles == [name : {<<"notes", "TXT">>}, size : {max_size}, content : {1}]

NextCleanup ==
    \/ \E u \in Users, f \in CleanupFiles, q \in BOOLEAN :
          docSeq < MaxCleanupDocs /\ upload(u, f, q, TRUE)
    \/ \E u \in Users, d \in DOMAIN docs, fault \in DestroyFaults :
          destroy(u, d, fault)
    \/ \E e \in BOOLEAN, removed \in Lists(DOMAIN files, MaxCleanupDocs) :
          cleanup_orphaned_files_task(e, removed)

SpecCleanup == InitDocs /\ [][NextCleanup]_vars

\* The reindex-all job over documents in every status: pending while queued,
\* processing once the worker has begun, indexed or failed after the
\* synchronous fallback.
ReindexFiles == [name : {<<"notes", "TXT">>}, size : {max_size}, content : 0..1]

NextReindex ==
    \/ \E u \in Users, f \in ReindexFiles, q \in BOOLEAN, b \in BOOLEAN :
          docSeq < MaxReindexDocs /\ upload(u, f, q, b)
    \/ \E d \in DOMAIN jobs : IndexBegin(d)
    \/ \E name \in DOMAIN files : lose_file(name)
    \/ \E fault \in ReindexFaults :
          /\ BagCardinality(vectors) < MaxReindexVectors
          /\ reindex_all_documents_task(fault)

SpecReindex == InitDocs /\ [][NextReindex]_vars

\* Upload and the generic create and update routes of the documents
\* resource.
WriteFiles == [name : {<<"notes", "TXT">>}, size : {max_size}, content : {1}]

NextWrite ==
    \/ \E u \in Users, f \in WriteFiles, q \in BOOLEAN :
          docSeq < MaxWriteDocs /\ upload(u, f, q, TRUE)
    \/ \E u \in Users, data \in DocumentData :
          docSeq < MaxWriteDocs /\ document_create(u, data)
    \/ \E u \in Users, d \in 1..(docSeq + 1), data \in DocumentData :
          document_update(u, d, data)

SpecWrite == InitDocs /\ [][NextWrite]_vars

\* The request threads of one process calling get_chroma_client.
NextClient ==
    \/ \E t \in Threads : client_test(t)
    \/ \E t \in Threads : client_construct(t)
    \/ \E t \in Threads : client_return(t)

SpecClient == InitDocs /\ [][NextClient]_vars

\* The same calls one after the other, as one thread makes them.
NextClientSerial ==
    \/ \E t \in Threads : Alone(t) /\ client_test(t)
    \/ \E t \in Threads : client_construct(t)
    \/ \E t \in Threads : client_return(t)

SpecClientSerial == InitDocs /\ [][NextClientSerial]_vars

\* Delete and reset while the worker runs the index job of the document.
MaxFlightDocs == 1

FlightFiles == [name : {<<"notes", "TXT">>}, size : {max_size}, content : {1}]

NextFlight ==
    \/ \E u \in Users, f \in FlightFiles :
          docSeq < MaxFlightDocs /\ upload(u, f, TRUE, TRUE)
    \/ \E d \in DOMAIN jobs : IndexBegin(d)
    \/ \E d \in DOMAIN jobs, b \in BOOLEAN : IndexFinish(d, b)
    \/ \E u \in Users, d \in DOMAIN docs : destroy(u, d, "none")
    \/ \E u \in Users : reset_knowledge(u, "none", 0)

SpecFlight == InitDocs /\ [][NextFlight]_vars

\* Uploads in two steps and the cleanup job of the worker beside them.
RaceFiles == [name : {<<"notes", "TXT">>}, size : {max_size}, content : {1}]

NextRace ==
    \/ \E u \in Users, f \in RaceFiles :
          Cardinality(DOMAIN uploads) < MaxRaceUploads /\ upload_write(u, f)
    \/ \E k \in DOMAIN uploads, q \in BOOLEAN, b \in BOOLEAN :
          upload_record(k, q, b)
    \/ \E e \in BOOLEAN, removed \in Lists(DOMAIN files, MaxRaceUploads) :
          cleanup_orphaned_files_task(e, removed)

SpecRace == InitDocs /\ [][NextRace]_vars

\* The same, with the cleanup job run only while no upload is in progress.
NextRaceQuiet ==
    \/ \E u \in Users, f \in RaceFiles :
          Cardinality(DOMAIN uploads) < MaxRaceUploads /\ upload_write(u, f)
    \/ \E k \in DOMAIN uploads, q \in BOOLEAN, b \in BOOLEAN :
          upload_record(k, q, b)
    \/ \E e \in BOOLEAN, removed \in Lists(DOMAIN files, MaxRaceUploads) :
          NoUploadInProgress /\ cleanup_orphaned_files_task(e, removed)

SpecRaceQuiet == InitDocs /\ [][NextRaceQuiet]_vars

(***************************************************************************)
(* C1: after any sequence of persona create, update, activate and reset    *)
(* requests every owner has at most one active SystemPrompt; activating B  *)
(* while A is active for the same owner leaves B active and A inactive,    *)
(* and leaves the active personas of every other owner unchanged.          *)
(***************************************************************************)
AtMostOneActive == \A u \in Users : Cardinality(ActiveOf(prompts, u)) <= 1

ActivateEffect ==
    (resp'.op = "activate" /\ resp'.code = 200) =>
        /\ ActiveOf(prompts', resp'.user) = {resp'.id}
        /\ \A o \in Users \ {resp'.user} :
               ActiveOf(prompts', o) = ActiveOf(prompts, o)

C1_OneActivePersona == []AtMostOneActive /\ [][ActivateEffect]_vars

\* B was activated while another persona A of the same owner was active, and
\* another owner holds an active persona.
C1_Witness ==
    /\ resp.op = "activate" /\ resp.code = 200
    /\ resp.before # {} /\ resp.id \notin resp.before
    /\ ActiveOf(prompts, resp.user) = {resp.id}
    /\ \E o \in Users \ {resp.user} : ActiveOf(prompts, o) # {}

(***************************************************************************)
(* C3: deleting a document removes its database record, its vectors (a     *)
(* query by its file path afterwards returns nothing) and its file on      *)
(* disk; when the vector deletion fails, the database record is still      *)
(* removed.                                                                *)
(***************************************************************************)
C3_DeleteRemovesAll ==
    (resp.op = "destroy" /\ resp.code = 204) =>
        /\ resp.id \notin DOMAIN docs
        /\ resp.fault = "none" =>
              /\ VectorsAt(vectors, resp.path) = {}
              /\ PathName(resp.path) \notin DOMAIN files

\* An indexed document, with vectors in the collection, has been deleted.
C3_Witness ==
    /\ resp.op = "destroy" /\ resp.code = 204
    /\ resp.fault = "none" /\ resp.had
    /\ resp.id \notin DOMAIN docs

\* The collection call failed during a delete: the vectors are still there
\* and the record is gone.
C3_WitnessFault ==
    /\ resp.op = "destroy" /\ resp.code = 204
    /\ resp.fault = "collection"
    /\ VectorsAt(vectors, resp.path) # {}
    /\ resp.id \notin DOMAIN docs

ResetEffect ==
    (resp'.op = "reset" /\ resp'.code = 200) =>
        LET u == resp'.user
            mine == {PathName(q) : q \in resp'.paths}
        IN  /\ {d \in DOMAIN docs' : docs'[d].user = u} = {}
            /\ resp'.fault = "none" => VectorsOf(vectors', u) = {}
            /\ \A d \in DocQueryset(u) :
                  PathName(docs[d].file_path) \in DOMAIN files' => d = resp'.bad
            /\ \A d \in DOMAIN docs :
                  docs[d].user # u => d \in DOMAIN docs' /\ docs'[d] = docs[d]
            /\ \A x \in DOMAIN vectors :
                  x.user_id # Str(u) => x \in DOMAIN vectors' /\ vectors'[x] = vectors[x]
            /\ \A n \in DOMAIN files :
                  n \notin mine => n \in DOMAIN files' /\ files'[n] = files[n]

FailsValidation(f) ==
    \/ Len(f.name) < 2
    \/ Lower(f.name[Len(f.name)]) \notin
          {"pdf", "txt", "md", "png", "jpg", "jpeg", "tiff", "tif", "bmp"}
    \/ f.size > 50 * 1024 * 1024

RejectedUploadEffect ==
    (resp'.op = "upload" /\ FailsValidation(resp'.file)) =>
        /\ resp'.code = 400
        /\ UNCHANGED <<docs, docSeq, files, vectors, jobs>>

C5_RejectedUploadNoEffect == [][RejectedUploadEffect]_vars

\* An upload was rejected while an earlier document is stored.
C5_Witness ==
    /\ resp.op = "upload" /\ resp.code = 400
    /\ DOMAIN docs # {} /\ DOMAIN files # {}

(***************************************************************************)
(* C6: every upload that passes validation returns 201 with the created    *)
(* Document record: the record is pending when the indexing job was        *)
(* enqueued; when the queue is unreachable the indexing runs in the        *)
(* request and the record is indexed on success, or failed with the error  *)
(* text stored on failure.                                                 *)
(***************************************************************************)
AcceptedUploadEffect ==
    (resp'.op = "upload" /\ ~FailsValidation(resp'.file)) =>
        LET f == resp'.file
            body == resp'.body
        IN  /\ resp'.code = 201
            /\ resp'.id \in DOMAIN docs' \ DOMAIN docs
            /\ body = docs'[resp'.id]
            /\ body.original_filename = f.name /\ body.file_size = f.size
            /\ resp'.queued =>
                  /\ body.index_status = "pending"
                  /\ resp'.id \in DOMAIN jobs' /\ jobs'[resp'.id].state = "queued"
            /\ ~resp'.queued =>
                 LET indexable == /\ resp'.backend_up /\ f.content > 0
                                  /\ (Lower(f.name[Len(f.name)]) = "png" => ocr)
                     stored == VectorsAt(vectors', body.file_path)
                 IN  /\ resp'.id \notin DOMAIN jobs'
                     /\ indexable =>
                          /\ body.index_status = "indexed"
                          /\ body.chunk_count = f.content
                          /\ Cardinality(stored) = f.content
                     /\ ~indexable =>
                          /\ body.index_status = "failed"
                          /\ body.error_message # NULL
                          /\ stored = {}

C6_AcceptedUploadReturns201 == [][AcceptedUploadEffect]_vars

\* The queue was unreachable and the synchronous indexing failed: the upload
\* still answered 201, with the record failed and the error text on it.
C6_Witness ==
    /\ resp.op = "upload" /\ resp.code = 201 /\ ~resp.queued
    /\ resp.body.index_status = "failed" /\ resp.body.error_message # NULL
    /\ docs[resp.id] = resp.body

(***************************************************************************)
(* C7: when indexing keeps raising, the index-one-document job is run      *)
(* again at most 3 times after its first attempt; after every failed       *)
(* attempt the Document is failed with the error text stored, it is        *)
(* processing only while an attempt runs, it stays failed once the         *)
(* retries are used up, and an attempt that succeeds sets it to indexed    *)
(* with the error message cleared.                                         *)
(***************************************************************************)
JobAttemptsBounded ==
    \A d \in DOMAIN jobs : jobs[d].retries <= 3 /\ jobs[d].attempts <= 1 + 3

FailedAttemptIsRecorded ==
    (resp.op = "index_finish" /\ resp.outcome = "failed") =>
        /\ resp.id \in DOMAIN docs
        /\ docs[resp.id].index_status = "failed"
        /\ docs[resp.id].error_message = resp.error /\ resp.error # NULL
        /\ jobs[resp.id].state = "exhausted" <=> jobs[resp.id].attempts = 1 + 3

ProcessingOnlyWhileRunning ==
    \A d \in DOMAIN docs :
        docs[d].index_status = "processing" <=>
            (d \in DOMAIN jobs /\ jobs[d].state = "running")

SucceededAttemptIsRecorded ==
    (resp.op = "index_finish" /\ resp.outcome = "indexed") =>
        /\ docs[resp.id].index_status = "indexed"
        /\ docs[resp.id].error_message = NULL
        /\ jobs[resp.id].state = "done"

ExhaustedStaysFailed ==
    \A d \in DOMAIN jobs :
        jobs[d].state = "exhausted" =>
            /\ jobs'[d] = jobs[d]
            /\ docs[d].index_status = "failed"
            /\ docs'[d].index_status = "failed"

C7_RetriesAndStatus ==
    /\ [](JobAttemptsBounded /\ FailedAttemptIsRecorded
            /\ ProcessingOnlyWhileRunning /\ SucceededAttemptIsRecorded)
    /\ [][ExhaustedStaysFailed]_vars

\* The fourth attempt has failed: the retries are used up and the Document
\* is failed with the error of that attempt.
C7_Witness ==
    /\ resp.op = "index_finish" /\ resp.outcome = "failed"
    /\ jobs[resp.id].state = "exhausted" /\ jobs[resp.id].retries = 3
    /\ docs[resp.id].index_status = "failed"

(***************************************************************************)
(* C2: for any sequence of uploads and indexing jobs by two users, a       *)
(* grounded chat query run for user A retrieves and cites only chunks      *)
(* whose user_id metadata is A: every retrieved chunk is tagged with the   *)
(* requester and lies at the file path of one of the requester's           *)
(* documents, never of another user's, and every citation returned is      *)
(* built from such a chunk.                                                *)
(***************************************************************************)
C2_CitesOnlyOwnChunks ==
    (resp.op = "chat" /\ resp.code = 200 /\ resp.grounded) =>
        /\ \A i \in DOMAIN resp.hits :
              LET chunk == resp.hits[i][1]
              IN  /\ chunk.user_id = Str(resp.user)
                  /\ \E d \in DOMAIN docs :
                        docs[d].file_path = chunk.file_path
                  /\ \A d \in DOMAIN docs :
                        docs[d].file_path = chunk.file_path
                            => docs[d].user = resp.user
        /\ Len(resp.citations) <= Len(resp.hits)
        /\ \A i \in DOMAIN resp.citations :
              resp.citations[i] = Citation(resp.hits[i][1])

\* User 1 got a cited answer while the collection also holds chunks of user 2.
C2_Witness ==
    /\ resp.op = "chat"
    /\ resp.code = 200
    /\ resp.user = 1
    /\ resp.grounded
    /\ resp.citations # <<>>
    /\ VectorsOf(vectors, 2) # {}

(***************************************************************************)
(* C8, as claimed: every chat request that passes validation ends with a   *)
(* normal response carrying response text, citations and session id, and   *)
(* with one assistant message persisted, whatever fails while loading the  *)
(* persona, building the engine, retrieving or generating; a failure       *)
(* shows only as an apology string embedding the error text, with empty    *)
(* citations.  The persona lookup runs outside the try block, so a         *)
(* failure there ends the request with an error and no assistant message.  *)
(***************************************************************************)
IsApology(text) == Len(text) = 2 /\ text[1] = "I encountered an error: "

C8_AsClaimed ==
    (resp.op = "chat" /\ resp.code # 400) =>
        /\ resp.code = 200
        /\ messages # <<>>
        /\ LET last == messages[Len(messages)]
           IN  /\ last.role = "assistant"
               /\ last.session = resp.session_id
               /\ last.content = resp.response
               /\ last.citations = resp.citations
        /\ resp.raised # NULL =>
              /\ resp.response = <<"I encountered an error: ", resp.raised>>
              /\ resp.citations = <<>>

(***************************************************************************)
(* C9: a chat request from a user who has no Document with status indexed  *)
(* is answered in general mode: the citation list is empty and no vector   *)
(* retrieval is executed; when the user has pending or processing          *)
(* documents the answer (when one was generated, and not the apology of a  *)
(* failed generation) is prefixed with the indexing-in-progress note.      *)
(***************************************************************************)
C9_NoIndexedMeansGeneral ==
    (/\ resp.op = "chat"
     /\ resp.code = 200
     /\ \A d \in DOMAIN docs :
           docs[d].user = resp.user => docs[d].index_status # "indexed") =>
        /\ ~resp.grounded
        /\ resp.citations = <<>>
        /\ ~resp.searched
        /\ resp.hits = <<>>
        /\ IsApology(resp.response) <=> resp.raised # NULL
        /\ ~IsApology(resp.response) =>
              IF \E d \in DOMAIN docs :
                    /\ docs[d].user = resp.user
                    /\ docs[d].index_status \in {"pending", "processing"}
              THEN resp.response = <<Note, "answer">>
              ELSE resp.response = <<"answer">>

\* A user whose only document is still pending or processing got the note,
\* while the other user has an indexed document in the collection.
C9_Witness ==
    /\ resp.op = "chat"
    /\ resp.code = 200
    /\ ~resp.grounded
    /\ resp.response = <<Note, "answer">>
    /\ \E d \in DOMAIN docs :
          docs[d].user # resp.user /\ docs[d].index_status = "indexed"
    /\ VectorsOf(vectors, resp.user) = {}

(***************************************************************************)
(* C10: in a grounded query whose similarity search returns, the           *)
(* suggested follow-up action is web_search exactly when there are no      *)
(* results or the best (lowest) distance is greater than 1.2, and is none  *)
(* when the best distance is at most 1.2; the citations are built from     *)
(* all retrieved chunks, in their order, in either case.                   *)
(***************************************************************************)
C10_WebSearchIffLowConfidence ==
    (resp.op = "query" /\ resp.fault = "none") =>
        LET found == resp.found
            result == resp.result
            low == found = <<>> \/ found[1][2] > LowConfidence
        IN  /\ result.raised = NULL
            /\ result.suggested_action = (IF low THEN "web_search" ELSE NULL)
            /\ result.citations =
                  [i \in DOMAIN found |-> Citation(found[i][1])]
            /\ \A i \in DOMAIN found :
                  found[i][1].user_id = Str(resp.user)

\* Two chunks were retrieved, the best exactly at the threshold: no web
\* search is suggested and both chunks are cited.
C10_Witness ==
    /\ resp.op = "query"
    /\ resp.fault = "none"
    /\ Len(resp.found) = 2
    /\ resp.found[1][2] = LowConfidence
    /\ resp.result.suggested_action = NULL
    /\ Len(resp.result.citations) = 2

(***************************************************************************)
(* C11, as claimed: a session's title is "New Chat" until its first chat   *)
(* exchange; the first exchange sets it to the first user message (cut to  *)
(* 50 characters and "..." when longer), and every later exchange in the   *)
(* session leaves the title unchanged and only bumps updated_at.  The      *)
(* code recognises the first exchange by the title still being "New Chat", *)
(* so a session whose first message is "New Chat" is retitled by its       *)
(* second exchange.                                                        *)
(***************************************************************************)
Exchanged(sid) == \E i \in DOMAIN messages : messages[i].session = sid

UntitledUntilFirstExchange ==
    \A sid \in DOMAIN sessions : ~Exchanged(sid) => sessions[sid].title = NewChat

TitleEffect ==
    (resp'.op = "chat" /\ resp'.code = 200 /\ messages' # messages) =>
        LET sid == resp'.session_id
            message == resp'.message
            derived == IF message.len > 50
                       THEN <<message.text, "[:50]", "...">>
                       ELSE <<message.text>>
        IN  IF sid \in DOMAIN sessions /\ Exchanged(sid)
            THEN /\ sessions'[sid].title = sessions[sid].title
                 /\ sessions'[sid].updated > sessions[sid].updated
            ELSE sessions'[sid].title = derived

C11_AsClaimed == []UntitledUntilFirstExchange /\ [][TitleEffect]_vars

(***************************************************************************)
(* C12: each chat request that is answered adds exactly two messages to    *)
(* its session, the user message before the answer is computed and the     *)
(* assistant message after it, and no step modifies or removes a message   *)
(* that already exists; in creation order the assistant message of a       *)
(* request comes after the user message of the same request, also when     *)
(* two chat requests run on the same session at once.                      *)
(***************************************************************************)
IsPrefix(s, t) == Len(s) <= Len(t) /\ \A i \in DOMAIN s : t[i] = s[i]

TurnEffect ==
    /\ IsPrefix(messages, messages')
    /\ resp'.op = "chat_begin" =>
          /\ Len(messages') = Len(messages) + 1
          /\ LET asked == messages'[Len(messages')]
                 r == resp'.request
             IN  /\ asked.role = "user"
                 /\ asked.session = resp'.session_id
                 /\ asked.content = <<requests'[r].message.text>>
                 /\ requests'[r].asked_at = Len(messages')
    /\ (resp'.op = "chat_answer" /\ resp'.code = 200) =>
          /\ Len(messages') = Len(messages) + 1
          /\ LET answer == messages'[Len(messages')]
                 asked == messages'[resp'.asked_at]
             IN  /\ answer.role = "assistant"
                 /\ answer.session = resp'.session_id
                 /\ answer.content = resp'.response
                 /\ resp'.asked_at < Len(messages')
                 /\ asked.role = "user"
                 /\ asked.session = resp'.session_id
                 /\ asked.content = <<resp'.message.text>>

\* Every answered request has one user and one assistant message of its own.
TwoMessagesPerAnsweredRequest ==
    \A sid \in DOMAIN sessions :
       LET of(role) == {i \in DOMAIN messages :
                           messages[i].session = sid /\ messages[i].role = role}
           begun == {r \in DOMAIN requests : requests[r].sid = sid}
           answered == {r \in begun : requests[r].state = "answered"}
       IN  /\ Cardinality(of("user")) = Cardinality(begun)
           /\ Cardinality(of("assistant")) = Cardinality(answered)

NotOwned(table, u, pk) == pk \notin DOMAIN table \/ table[pk].user # u

OwnerTables == <<prompts, docs, files, vectors, sessions, messages>>

ForeignRecordEffect ==
    /\ (resp'.op \in {"status", "preview"}
           /\ NotOwned(docs, resp'.user, resp'.pk))
          => (resp'.code = 404 /\ resp'.body = NotFound
                /\ UNCHANGED OwnerTables)
    /\ (resp'.op = "preview_document"
           /\ NotOwned(docs, resp'.user, resp'.pk))
          => (resp'.code = 404 /\ resp'.body = "Document not found"
                /\ UNCHANGED OwnerTables)
    /\ (resp'.op \in {"session_retrieve", "session_messages",
                        "clear_messages", "session_destroy"}
           /\ NotOwned(sessions, resp'.user, resp'.pk))
          => (resp'.code = 404 /\ resp'.body = NotFound
                /\ UNCHANGED OwnerTables)
    /\ (resp'.op = "prompt_retrieve"
           /\ NotOwned(prompts, resp'.user, resp'.pk))
          => (resp'.code = 404 /\ resp'.body = NotFound
                /\ UNCHANGED OwnerTables)
    /\ (resp'.op = "activate" /\ NotOwned(prompts, resp'.user, resp'.id))
          => (resp'.code = 404 /\ UNCHANGED OwnerTables)
    /\ \A u \in Users, d \in 1..(docSeq + 1) :
          (destroy(u, d, "none") /\ NotOwned(docs, u, d))
             => (resp'.code = 404 /\ UNCHANGED OwnerTables)

C13_ForeignRecordIs404 == [][ForeignRecordEffect]_vars

\* User 1 asked to clear a session of user 2, which has its two messages.
C13_Witness ==
    /\ resp.op = "clear_messages"
    /\ resp.code = 404
    /\ resp.user = 1
    /\ resp.pk \in DOMAIN sessions
    /\ sessions[resp.pk].user = 2
    /\ Len(messages) = 2

(***************************************************************************)
(* C14, as claimed: after the repair command has run, no Document whose    *)
(* file is missing on disk is left with status indexed: each such record   *)
(* is marked failed with a message or removed together with its vectors;   *)
(* and every Document the command reports as fixed has had its old         *)
(* vectors for that file path deleted before the fresh ones were added.    *)
(***************************************************************************)
NoGhostLeftIndexed ==
    \A d \in DOMAIN docs :
       PathName(docs[d].file_path) \notin DOMAIN files =>
          docs[d].index_status = "failed" /\ docs[d].error_message # NULL

C15_AsClaimed ==
    (resp.op = "retrieve" /\ resp.ranking = <<>>) =>
        resp.result = SubSeq(resp.matches, 1,
                             Min(resp.k, Len(resp.matches)))

\* What holds instead: the retriever returns the first five of them at most,
\* whatever k the retriever was asked for.
C15_FirstFiveOnly ==
    (resp.op = "retrieve" /\ resp.ranking = <<>>) =>
        /\ Len(resp.result) = Min(Min(resp.k, hybrid_k), Len(resp.matches))
        /\ \A i \in DOMAIN resp.result : resp.result[i] = resp.matches[i]

\* The failing case: six results asked for, six matches, five returned.
C15_Truncated ==
    /\ resp.op = "retrieve"
    /\ resp.ranking = <<>>
    /\ resp.k > hybrid_k
    /\ Len(resp.matches) >= resp.k
    /\ Len(resp.result) = hybrid_k

(***************************************************************************)
(* C16, as claimed: Reciprocal Rank Fusion of a semantic list and a        *)
(* keyword list returns at most k chunks, no chunk content twice, in       *)
(* descending order of score, where a chunk's score is the sum over the    *)
(* lists it appears in of weight / (60 + its 1-based rank) with weight 0.6 *)
(* for semantic and 0.4 for keyword; and a chunk ranked 1st in both lists  *)
(* strictly outranks every chunk that appears in only one list.  (That the *)
(* order is the same on every run is built into the model: the fusion is   *)
(* an operator of the two lists, as the code's stable sort over insertion  *)
(* order is.)                                                              *)
(***************************************************************************)
Holds(list, content) == \E i \in DOMAIN list : list[i].page_content = content

\* The 1-based rank of a content in a list that holds it.
RankOf(list, content) ==
    CHOOSE i \in DOMAIN list :
       /\ list[i].page_content = content
       /\ \A j \in DOMAIN list : list[j].page_content = content => i <= j

\* The score of the claim, in units of 10^-9.
ClaimedScore(content) ==
    (IF Holds(resp.semantic_docs, content)
     THEN (6 * 100000000) \div (60 + RankOf(resp.semantic_docs, content))
     ELSE 0)
    + (IF Holds(resp.bm25_results, content)
       THEN (4 * 100000000) \div (60 + RankOf(resp.bm25_results, content))
       ELSE 0)

FusionBounded ==
    /\ Len(resp.result) <= resp.k
    /\ \A i, j \in DOMAIN resp.result :
          i # j => resp.result[i].page_content # resp.result[j].page_content
    /\ \A i \in DOMAIN resp.result :
          \/ \E j \in DOMAIN resp.semantic_docs :
                resp.semantic_docs[j] = resp.result[i]
          \/ \E j \in DOMAIN resp.bm25_results :
                resp.bm25_results[j] = resp.result[i]

FusionDescending ==
    \A i, j \in DOMAIN resp.result :
       i < j => ClaimedScore(resp.result[i].page_content)
                   >= ClaimedScore(resp.result[j].page_content)

FirstInBothOnTop ==
    \A i, j \in DOMAIN resp.result :
       LET a == resp.result[i].page_content
           b == resp.result[j].page_content
       IN  (/\ Holds(resp.semantic_docs, a) /\ Holds(resp.bm25_results, a)
            /\ RankOf(resp.semantic_docs, a) = 1
            /\ RankOf(resp.bm25_results, a) = 1
            /\ Holds(resp.semantic_docs, b) # Holds(resp.bm25_results, b))
           => i < j

C16_AsClaimed ==
    resp.op = "fuse" =>
        FusionBounded /\ FusionDescending /\ FirstInBothOnTop

\* No content is held twice by either list.
NoRepeats(list) ==
    \A i, j \in DOMAIN list :
       i # j => list[i].page_content # list[j].page_content

\* What holds instead: the bounds always, the order and the top place when
\* neither list holds a content twice.
C16_WithoutRepeats ==
    resp.op = "fuse" =>
        /\ FusionBounded
        /\ (NoRepeats(resp.semantic_docs) /\ NoRepeats(resp.bm25_results))
              => (FusionDescending /\ FirstInBothOnTop)

\* The failing case: a content that only the semantic list holds, twice, is
\* returned ahead of the content ranked 1st in both lists.
C16_Overtaken ==
    /\ resp.op = "fuse"
    /\ Len(resp.result) >= 2
    /\ LET a == resp.result[2].page_content
           b == resp.result[1].page_content
       IN  /\ Holds(resp.semantic_docs, a) /\ Holds(resp.bm25_results, a)
           /\ RankOf(resp.semantic_docs, a) = 1
           /\ RankOf(resp.bm25_results, a) = 1
           /\ ~Holds(resp.bm25_results, b)

(***************************************************************************)
(* C17, as claimed: on a deployment where OCR is not available, an upload  *)
(* whose extension is one of .png .jpg .jpeg .tiff .tif .bmp is rejected   *)
(* with a validation error and creates no Document record; only .pdf .txt  *)
(* .md are accepted there.                                                 *)
(***************************************************************************)
ClaimedImages == {<<".", e>> : e \in {"png", "jpg", "jpeg", "tiff", "tif", "bmp"}}
ClaimedTexts == {<<".", e>> : e \in {"pdf", "txt", "md"}}

NoOcrUploadEffect ==
    (resp'.op = "upload" /\ ~ocr) =>
        /\ Ext(resp'.file.name) \in ClaimedImages =>
              (resp'.code = 400 /\ docs' = docs /\ files' = files)
        /\ resp'.code = 201 => Ext(resp'.file.name) \in ClaimedTexts

C17_AsClaimed == [][NoOcrUploadEffect]_vars

\* The failing case: without OCR an image was accepted and has its record.
C17_ImageAccepted ==
    /\ ~ocr
    /\ resp.op = "upload"
    /\ resp.code = 201
    /\ Ext(resp.file.name) \in ClaimedImages
    /\ \E d \in DOMAIN docs : docs[d].original_filename = resp.file.name

\* What holds instead: the record of an image accepted without OCR is never
\* indexed; the loader refuses the file and the record ends up failed.
C17_ImageNeverIndexed ==
    \A d \in DOMAIN docs :
       (~ocr /\ Ext(docs[d].original_filename) \in ClaimedImages)
          => docs[d].index_status \in {"pending", "processing", "failed"}

(***************************************************************************)
(* C18, as claimed: for every document indexed after an upload, whether by *)
(* the background job or by the synchronous fallback, every stored chunk   *)
(* has source equal to the document's original filename (never the         *)
(* generated stored name), its file_path equal to the document's storage   *)
(* path and user_id equal to the uploader.                                 *)
(***************************************************************************)
C18_AsClaimed ==
    \A r \in BagToSet(vectors) :
       \E d \in DOMAIN docs :
          /\ r.file_path = docs[d].file_path
          /\ r.user_id = Str(docs[d].user)
          /\ r.source = docs[d].original_filename

\* What holds instead: the path and the owner are always right; the source
\* is the original filename or the generated stored name.
C18_SourceEitherName ==
    \A r \in BagToSet(vectors) :
       \E d \in DOMAIN docs :
          /\ r.file_path = docs[d].file_path
          /\ r.user_id = Str(docs[d].user)
          /\ r.source \in {docs[d].original_filename, docs[d].filename}

\* The failing case: the synchronous fallback indexed the upload and its
\* chunk carries the generated stored name.
C18_StoredNameAsSource ==
    /\ resp.op = "upload"
    /\ ~resp.queued
    /\ resp.code = 201
    /\ resp.body.index_status = "indexed"
    /\ \E r \in BagToSet(vectors) :
          /\ r.file_path = resp.body.file_path
          /\ r.source = resp.body.filename
          /\ r.source # resp.body.original_filename

\* When every document went to the background job, the claim holds.
C18_JobStampsOriginal ==
    (\A d \in DOMAIN docs : d \in DOMAIN jobs) =>
        \A r \in BagToSet(vectors) :
           \E d \in DOMAIN docs :
              /\ r.file_path = docs[d].file_path
              /\ r.source = docs[d].original_filename

(***************************************************************************)
(* C19: the cleanup job removes exactly the files in the upload directory  *)
(* whose name equals the stored filename of no Document record, leaves     *)
(* every file that has a Document record in place, and returns the list of *)
(* removed names with a count equal to the length of that list.            *)
(***************************************************************************)
HasRecord(name) == \E d \in DOMAIN docs : docs[d].filename = name

CleanupEffect ==
    (resp'.op = "cleanup" /\ "removed_files" \in DOMAIN resp') =>
        /\ DOMAIN files' = {name \in DOMAIN files : HasRecord(name)}
        /\ \A name \in DOMAIN files' : files'[name] = files[name]
        /\ {resp'.removed_files[i] : i \in DOMAIN resp'.removed_files}
              = {name \in DOMAIN files : ~HasRecord(name)}
        /\ Len(resp'.removed_files)
              = Cardinality({name \in DOMAIN files : ~HasRecord(name)})
        /\ resp'.count = Len(resp'.removed_files)
        /\ docs' = docs /\ vectors' = vectors

C19_CleanupRemovesOrphans == [][CleanupEffect]_vars

\* The job removed an orphan and left the file of a Document in place.
C19_Witness ==
    /\ resp.op = "cleanup"
    /\ "removed_files" \in DOMAIN resp
    /\ resp.count >= 1
    /\ \E d \in DOMAIN docs : docs[d].filename \in DOMAIN files

(***************************************************************************)
(* C20: the reindex-all job sets every Document that is indexed or failed  *)
(* to indexed with the error message cleared, leaves every pending or      *)
(* processing Document unchanged, and changes no Document record at all    *)
(* when no chunks were loaded or when loading or storing the chunks        *)
(* raised.                                                                 *)
(***************************************************************************)
ReindexEffect ==
    resp'.op = "reindex_all" =>
        /\ DOMAIN docs' = DOMAIN docs
        /\ (resp'.raised # NULL \/ resp'.total_chunks = 0) => docs' = docs
        /\ (resp'.raised = NULL /\ resp'.total_chunks > 0) =>
              \A d \in DOMAIN docs :
                 /\ docs[d].index_status \in {"indexed", "failed"} =>
                       (/\ docs'[d].index_status = "indexed"
                        /\ docs'[d].error_message = NULL)
                 /\ docs[d].index_status \in {"pending", "processing"} =>
                       docs'[d] = docs[d]

C20_ReindexAllEffect == [][ReindexEffect]_vars

\* The job stored chunks and turned a failed Document, one that never had
\* chunks, into an indexed one while another Document was left waiting.
C20_Witness ==
    /\ resp.op = "reindex_all"
    /\ resp.raised = NULL
    /\ resp.total_chunks > 0
    /\ \E d \in DOMAIN docs :
          /\ docs[d].index_status = "indexed"
          /\ docs[d].chunk_count = 0
          /\ docs[d].error_message = NULL
    /\ \E d \in DOMAIN docs :
          docs[d].index_status \in {"pending", "processing"}

(***************************************************************************)
(* C21, as claimed: no create or update request a client sends to the      *)
(* documents resource changes a stored field of a Document: status, chunk  *)
(* count and error message are read-only, and every other field (stored    *)
(* filename, original filename, file type, size, owner) keeps the value    *)
(* the upload action set; only upload, the indexing pipeline, delete and   *)
(* reset change Document records.                                          *)
(***************************************************************************)
ClientWriteEffect ==
    resp'.op \in {"document_create", "document_update"} => docs' = docs

C21_AsClaimed == [][ClientWriteEffect]_vars

\* What holds instead: an update leaves the read-only fields, and the path,
\* of every Document as they were, and touches no Document but the one named.
ReadOnlyFieldsEffect ==
    resp'.op \in {"document_create", "document_update"} =>
        \A d \in DOMAIN docs :
           /\ d \in DOMAIN docs'
           /\ \A f \in {"user", "filename", "file_path", "file_size",
                        "index_status", "chunk_count", "error_message",
                        "indexed_at"} : docs'[d][f] = docs[d][f]
           /\ d # resp'.id => docs'[d] = docs[d]

C21_ReadOnlyFieldsKept == [][ReadOnlyFieldsEffect]_vars

\* The failing cases: the owner renamed an uploaded Document by an update,
\* or a create request left a Document that no upload made.
C21_Renamed ==
    /\ resp.op = "document_update"
    /\ resp.code = 200
    /\ docs[resp.id].filename # <<>>
    /\ docs[resp.id].original_filename = <<"other", "md">>

C21_CreatedWithoutUpload ==
    /\ resp.op = "document_create"
    /\ resp.code = 201
    /\ docs[resp.id].user = NoUser
    /\ docs[resp.id].file_path = <<>>

(***************************************************************************)
(* C22: a chat request carrying a session id that does not exist or        *)
(* belongs to another user creates a new session owned by the requester    *)
(* and writes both messages there; no chat request ever adds a message to, *)
(* or changes the title or updated timestamp of, a session owned by a      *)
(* different user.                                                         *)
(***************************************************************************)
ChatSessionEffect ==
    (resp'.op = "chat" /\ resp'.code = 200) =>
        LET s == resp'.requested
            u == resp'.user
            sid == resp'.session_id
            n == Len(messages)
        IN  /\ (s # 0 /\ (s \notin DOMAIN sessions \/ sessions[s].user # u)) =>
                  (/\ sid \notin DOMAIN sessions
                   /\ sid \in DOMAIN sessions'
                   /\ sessions'[sid].user = u
                   /\ Len(messages') = n + 2
                   /\ messages'[n + 1].session = sid
                   /\ messages'[n + 1].role = "user"
                   /\ messages'[n + 2].session = sid
                   /\ messages'[n + 2].role = "assistant")
            /\ \A t \in DOMAIN sessions :
                  sessions[t].user # u =>
                     (t \in DOMAIN sessions' /\ sessions'[t] = sessions[t])
            /\ Len(messages') >= n
            /\ \A i \in 1..n : messages'[i] = messages[i]
            /\ \A i \in (n + 1)..Len(messages') :
                  sessions'[messages'[i].session].user = u

C22_ForeignSessionUntouched == [][ChatSessionEffect]_vars

\* A request named a session of the other user and got a session of its own,
\* while the named session still stands.
C22_Witness ==
    /\ resp.op = "chat"
    /\ resp.code = 200
    /\ resp.requested # 0
    /\ resp.requested # resp.session_id
    /\ resp.requested \in DOMAIN sessions
    /\ sessions[resp.requested].user # resp.user
    /\ sessions[resp.session_id].user = resp.user

(***************************************************************************)
(* C23, as claimed: within one process the vector-database client is       *)
(* constructed at most once and every call to get_chroma_client returns    *)
(* that same handle, including when the first calls come from two request  *)
(* threads at the same time.                                               *)
(***************************************************************************)
C23_AsClaimed ==
    /\ clients <= 1
    /\ \A t \in Threads : callers[t].got \subseteq {1}

\* The failing case: two threads passed the test before either assigned;
\* two clients were constructed and the calls returned different handles.
C23_TwoClients ==
    /\ clients >= 2
    /\ \E t, o \in Threads : callers[t].got # callers[o].got
                             /\ callers[t].got # {} /\ callers[o].got # {}

\* What holds instead: a call never returns None, and never a client that
\* was not constructed.
C23_HandleIsAClient ==
    \A t \in Threads : callers[t].got \subseteq 1..clients

(***************************************************************************)
(* C24, as claimed: when a document delete or a knowledge-base reset runs  *)
(* while an index job for the same document is in flight, then once both   *)
(* have finished the Document record does not exist and no vectors for its *)
(* file path remain: the job neither re-creates the deleted record when it *)
(* saves its status nor leaves vectors behind.                             *)
(***************************************************************************)
JobAfterDeleteEffect ==
    (resp'.op = "index_finish" /\ resp'.id \notin DOMAIN docs) =>
        /\ resp'.id \notin DOMAIN docs'
        /\ VectorsAt(vectors', jobs[resp'.id].document.file_path) = {}

C24_AsClaimed == [][JobAfterDeleteEffect]_vars

\* The failing case: the job has ended, the file is gone with the delete,
\* and the Document record is there again.
C24_Recreated ==
    \E d \in DOMAIN docs :
       /\ d \in DOMAIN jobs
       /\ jobs[d].state \in {"done", "exhausted"}
       /\ PathName(docs[d].file_path) \notin DOMAIN files

\* What holds instead: the job that finds the file gone stores no vectors.
NoVectorsAfterDelete ==
    (resp'.op = "index_finish" /\ resp'.id \notin DOMAIN docs
       /\ PathName(jobs[resp'.id].document.file_path) \notin DOMAIN files) =>
        /\ vectors' = vectors
        /\ docs'[resp'.id].index_status = "failed"

C24_NoVectorsAfterDelete == [][NoVectorsAfterDelete]_vars

(***************************************************************************)
(* C25, as claimed: the cleanup job never deletes the file of an upload    *)
(* that is in progress: for every Document record that exists once an      *)
(* upload has returned, its file is still on disk, also when the cleanup   *)
(* job ran between the upload writing the file and the upload creating the *)
(* Document record.                                                        *)
(***************************************************************************)
C25_AsClaimed ==
    \A d \in DOMAIN docs : PathName(docs[d].file_path) \in DOMAIN files

\* The failing case: an upload has returned 201 and its Document has no
\* file; the cleanup job took it between the two steps.
C25_FileTaken ==
    /\ resp.op = "upload"
    /\ resp.code = 201
    /\ resp.id \in DOMAIN docs
    /\ PathName(docs[resp.id].file_path) \notin DOMAIN files

(***************************************************************************)
(* C26, as claimed: in every reachable state, a Document whose status is   *)
(* indexed has chunk_count of at least 1 and a non-null indexed_at, after  *)
(* any sequence of upload, index job, synchronous fallback, reindex-all    *)
(* and repair operations.                                                  *)
(***************************************************************************)
C26_AsClaimed ==
    \A d \in DOMAIN docs :
       docs[d].index_status = "indexed" =>
          (docs[d].chunk_count >= 1 /\ docs[d].indexed_at # NULL)

\* The failing case: reindex-all has marked a Document indexed that never
\* had a chunk counted.
C26_IndexedWithoutChunks ==
    /\ resp.op = "reindex_all"
    /\ \E d \in DOMAIN docs :
          docs[d].index_status = "indexed" /\ docs[d].chunk_count = 0

\* What holds instead, with reindex-all among the operations: an indexed
\* Document has its indexed_at.
C26_IndexedHasTimestamp ==
    \A d \in DOMAIN docs :
       docs[d].index_status = "indexed" => docs[d].indexed_at # NULL

(***************************************************************************)
(* The keyword index of the web process and the retrieval that reads it.   *)
(***************************************************************************)
MaxKeywordDocs == 2

\* A stored chunk as a retriever returns it: a Document of its content and
\* its metadata.
AsDocument(c) ==
    [page_content |-> <<c.file_path, c.chunk>>, source |-> c.source,
     file_path |-> c.file_path, user_id |-> c.user_id]

\* RAGEngine(user_id).get_retriever().invoke(query).  The order of the
\* vector matches and the order of the BM25 scores depend on the query, so
\* any order is possible: near is the user's vectors by distance, scored is
\* the positions of the user's keyword index by score.
invoke(u, near, scored) ==
    LET semantic == [i \in DOMAIN near |-> AsDocument(near[i])]
        ranking == [i \in DOMAIN scored |-> AsDocument(bm25[u][scored[i]])]
    IN  /\ resp' = [op |-> "invoke", user |-> u,
                    result |-> get_relevant_documents(Take(semantic, TopK),
                                                      ranking)]
        /\ ReadFrame

\* Upload through the synchronous fallback, delete, reset and retrieval in
\* the web process; delete and reset without a fault.
NextKeyword ==
    \/ \E u \in Users, f \in TextFiles, b \in BOOLEAN :
          /\ docSeq < MaxKeywordDocs
          /\ upload(u, f, FALSE, b)
    \/ \E u \in Users, d \in KnownIds : destroy(u, d, "none")
    \/ \E u \in Users : reset_knowledge(u, "none", 0)
    \/ \E u \in Users :
          \E near \in Orderings(VectorsOf(vectors, u)),
             scored \in Orderings(DOMAIN bm25[u]) :
             invoke(u, near, scored)

SpecKeyword == InitDocs /\ [][NextKeyword]_vars

\* The file paths of the Documents of user u.
PathsOf(u) == {docs[d].file_path : d \in DocQueryset(u)}

(***************************************************************************)
(* C27, as claimed: after a document is deleted or its owner's knowledge   *)
(* base is reset, the owner's in-process keyword index holds no chunk of   *)
(* that document, so a hybrid retrieval for that user never returns a      *)
(* chunk of a deleted document.                                            *)
(***************************************************************************)
C27_AsClaimed ==
    /\ \A u \in Users : \A i \in DOMAIN bm25[u] :
          bm25[u][i].file_path \in PathsOf(u)
    /\ resp.op = "invoke" =>
          \A i \in DOMAIN resp.result :
             resp.result[i].file_path \in PathsOf(resp.user)

\* The failing case: a retrieval returns a chunk of a file that has no
\* Document and no vector any more.
C27_DeletedChunkReturned ==
    /\ resp.op = "invoke"
    /\ \E i \in DOMAIN resp.result :
          /\ resp.result[i].file_path \notin PathsOf(resp.user)
          /\ VectorsAt(vectors, resp.result[i].file_path) = {}

\* What holds instead: the keyword index of a user holds only chunks that
\* were stored for that user, and a retrieval returns only such chunks.
C27_OwnChunksOnly ==
    /\ \A u \in Users : \A i \in DOMAIN bm25[u] : bm25[u][i].user_id = Str(u)
    /\ resp.op = "invoke" =>
          \A i \in DOMAIN resp.result :
             resp.result[i].user_id = Str(resp.user)

(***************************************************************************)
(* The index job when an attempt fails after it has stored its chunks.     *)
(***************************************************************************)
MaxRetryDocs == 1

\* index_document_task, lines 43-77, when create_vector_store raises after
\* add_documents (service.py 309) has stored the chunks, in the keyword index
\* update of lines 312-314: the except clause marks the Document failed and
\* the job is retried; nothing removes what the attempt stored.
IndexFinishAfterStore(d) ==
    /\ d \in DOMAIN jobs
    /\ jobs[d].state = "running"
    /\ LET document == jobs[d].document
           loaded == load_single_document(files, document.file_path, document.user,
                                          document.original_filename)
           stored == create_vector_store(loaded.chunks, document.user, TRUE)
           err == "keyword index update failed"
       IN  /\ loaded.raised = NULL
           /\ stored.raised = NULL
           /\ vectors' = stored.vectors
           /\ docs' = Put(docs, d, TaskFailed(document, err))
           /\ jobs' = IF jobs[d].retries < max_retries
                      THEN [jobs EXCEPT ![d].state = "queued",
                                        ![d].retries = jobs[d].retries + 1,
                                        ![d].document = NoDocument]
                      ELSE [jobs EXCEPT ![d].state = "exhausted",
                                        ![d].document = NoDocument]
           /\ resp' = [op |-> "index_finish", id |-> d, outcome |-> "failed",
                       error |-> err]
    /\ UNCHANGED <<docSeq, files>>
    /\ DocsFrame

\* Upload to the queue and the worker running the job, where an attempt
\* fails before it stores anything or after it has stored its chunks.
NextRetry ==
    \/ \E u \in Users, f \in AcceptedFiles, b \in BOOLEAN :
          /\ docSeq < MaxRetryDocs
          /\ upload(u, f, TRUE, b)
    \/ \E d \in DOMAIN jobs : IndexBegin(d)
    \/ \E d \in DOMAIN jobs, b \in BOOLEAN : IndexFinish(d, b)
    \/ \E d \in DOMAIN jobs : IndexFinishAfterStore(d)

SpecRetry == Init /\ [][NextRetry]_vars

(***************************************************************************)
(* C28, as claimed: once the index job for a document has succeeded, also  *)
(* after failed attempts and retries, the number of vectors stored for the *)
(* document's file path equals its chunk_count; a retry does not add a     *)
(* second copy of chunks that an earlier attempt had stored before it      *)
(* failed.                                                                 *)
(***************************************************************************)
C28_AsClaimed ==
    (resp.op = "index_finish" /\ resp.outcome = "indexed") =>
       CopiesAt(vectors, docs[resp.id].file_path) = docs[resp.id].chunk_count

\* The failing case: the job has succeeded on a retry and the collection
\* holds more vectors for the file than the Document counts chunks.
C28_SecondCopy ==
    /\ resp.op = "index_finish" /\ resp.outcome = "indexed"
    /\ jobs[resp.id].retries >= 1
    /\ CopiesAt(vectors, docs[resp.id].file_path) > docs[resp.id].chunk_count

\* What holds instead: after the job has succeeded the collection holds at
\* least chunk_count vectors for the file, and at most one copy of the
\* chunks for each attempt.
C28_AtLeastOneCopy ==
    (resp.op = "index_finish" /\ resp.outcome = "indexed") =>
       /\ CopiesAt(vectors, docs[resp.id].file_path) >= docs[resp.id].chunk_count
       /\ CopiesAt(vectors, docs[resp.id].file_path)
             <= docs[resp.id].chunk_count * jobs[resp.id].attempts

(***************************************************************************)
(* C29, as claimed: every vector in the shared collection carries the      *)
(* user_id of the owner of the Document whose file path it has, after any  *)
(* sequence of upload, index job, reindex-all and repair operations, so    *)
(* every Document marked indexed has vectors that its owner's              *)
(* user-filtered retrieval can return.                                     *)
(***************************************************************************)
C29_AsClaimed ==
    /\ \A r \in DOMAIN vectors : \A d \in DOMAIN docs :
          docs[d].file_path = r.file_path => r.user_id = Str(docs[d].user)
    /\ \A d \in DOMAIN docs :
          docs[d].index_status = "indexed" =>
             \E r \in VectorsOf(vectors, docs[d].user) :
                r.file_path = docs[d].file_path

\* The failing case: reindex-all has stored vectors for the file of a
\* Document and marked it indexed, and none of them carries a user_id, so
\* the owner's filtered retrieval finds nothing of the Document.
C29_IndexedButUntagged ==
    /\ resp.op = "reindex_all"
    /\ \E d \in DOMAIN docs :
          /\ docs[d].index_status = "indexed"
          /\ VectorsAt(vectors, docs[d].file_path) # {}
          /\ \A r \in VectorsAt(vectors, docs[d].file_path) : r.user_id = NoKey

\* What holds instead: a vector at the file path of a Document carries the
\* owner's user_id or none, never another user's.
C29_OwnerOrUntagged ==
    \A r \in DOMAIN vectors : \A d \in DOMAIN docs :
       docs[d].file_path = r.file_path =>
          r.user_id \in {Str(docs[d].user), NoKey}

(***************************************************************************)
(* The index job under a worker that keeps running what is queued.         *)
(***************************************************************************)
MaxSettleDocs == 1

\* Upload of a text file with or without text, to the queue or through the
\* synchronous fallback, and the worker running the job; an attempt succeeds,
\* fails before it stores anything or fails after it has stored its chunks.
SettleFiles == [name : {<<"notes", "TXT">>}, size : {max_size}, content : 0..1]

NextSettle ==
    \/ \E u \in Users, f \in SettleFiles, q \in BOOLEAN, b \in BOOLEAN :
          /\ docSeq < MaxSettleDocs
          /\ upload(u, f, q, b)
    \/ \E d \in DOMAIN jobs : IndexBegin(d)
    \/ \E d \in DOMAIN jobs, b \in BOOLEAN : IndexFinish(d, b)
    \/ \E d \in DOMAIN jobs : IndexFinishAfterStore(d)

SpecSettle == Init /\ [][NextSettle]_vars

\* A running worker takes every job that stays queued, the retries that
\* self.retry re-queues included, and runs every task it has taken to its end.
WorkerRuns ==
    \A d \in 1..MaxSettleDocs :
       /\ WF_vars(IndexBegin(d))
       /\ WF_vars((\E b \in BOOLEAN : IndexFinish(d, b))
                     \/ IndexFinishAfterStore(d))

SpecSettleFair == SpecSettle /\ WorkerRuns

Unsettled(d) ==
    d \in DOMAIN docs /\ docs[d].index_status \in {"pending", "processing"}

Settled(d) ==
    d \in DOMAIN docs /\ docs[d].index_status \in {"indexed", "failed"}

(***************************************************************************)
(* C30: every uploaded Document eventually leaves the pending and          *)
(* processing states: provided a worker keeps running the queued jobs (or  *)
(* the synchronous fallback runs), it reaches indexed or failed and is not *)
(* left pending or processing for ever, whether indexing succeeds or fails *)
(* on every attempt.                                                       *)
(***************************************************************************)
C30_EventuallySettled ==
    \A d \in 1..MaxSettleDocs :
       /\ Unsettled(d) ~> Settled(d)
       /\ [](d \in DOMAIN docs => <>[]Settled(d))

\* A Document whose indexing failed on every attempt: the retries are used
\* up and the Document is failed.
C30_Witness ==
    \E d \in DOMAIN jobs :
       /\ jobs[d].state = "exhausted"
       /\ jobs[d].attempts = max_retries + 1
       /\ Settled(d) /\ docs[d].index_status = "failed"

====
